---- MODULE Spec2Model ----
(***************************************************************************)
(* Firewalla MSP MCP server (src/src/index.ts, the v1.2.0 entry point that *)
(* starts at line 1063): the tools/call handler, the outbound HTTP         *)
(* requests it issues, the error mapping of its catch block, the fan-out   *)
(* of search_global and the Markdown renderers behind                      *)
(* FirewallaResponseFormatter.formatEnhancedResponse.                      *)
(*                                                                         *)
(* JavaScript values are modelled as follows.  An object is a function     *)
(* whose DOMAIN is the set of keys it has: a missing key is `undefined`.   *)
(* A string is a string, a number a natural, an array a sequence.  Text    *)
(* built by a template literal is the sequence of its pieces, one piece    *)
(* per literal part and one per ${...}: interpolating undefined gives the  *)
(* piece "undefined", interpolating null the piece "null".  Literal parts   *)
(* that are only punctuation or emoji are left out.                        *)
(***************************************************************************)
EXTENDS Integers, Sequences, FiniteSets, TLC

VARIABLES
    pc,         \* position of the process: loading, loaded, exited; and of the
                \* tools/call handler: idle, awaiting, searching, returned
    name,       \* request.params.name of the call being handled
    args,       \* request.params.arguments of the call being handled
    reqs,       \* outbound HTTP requests the call has issued, in order
    resps,      \* how the requests issued so far have ended, in order
    sg,         \* locals of case "search_global": loop index, results, totalCount
    outcome,    \* what the handler's promise settled with
    env,        \* process.env: the environment variables that are set
    exit,       \* whether the process has exited, and with which status
    fn,         \* a helper function applied on its own: name, input, output
    calls,      \* the tools/call handlers in flight at once, each with its own
                \* name, args, reqs, resps, locals of search_global and outcome
    erred       \* whether a call has been answered with an error so far

vars == <<pc, name, args, reqs, resps, sg, outcome, env, exit, fn, calls, erred>>

(***************************************************************************)
(* Bounds of the model.                                                    *)
(***************************************************************************)
MaxTypes == 2       \* longest `types` list given to search_global
MaxResults == 2     \* longest result list in an upstream payload
ManyResults == 11   \* length of a long result list: more than the ten a report details
Spread == 12        \* byte counts are drawn this far around each power of 1024
MaxChars == 4       \* longest string given to escapeXML
MaxItems == 2       \* longest array in a JSON value given to jsonToXML
MaxCalls == 2       \* tools/call requests in flight at once

(***************************************************************************)
(* JavaScript helpers.                                                     *)
(***************************************************************************)
EmptyObject == [k \in {} |-> TRUE]

Has(o, k) == k \in DOMAIN o

Restrict(o, K) == [k \in (K \cap DOMAIN o) |-> o[k]]

NumKeys == {"limit"}
ArrKeys == {"targets", "types"}
ObjKeys == {"target", "scope", "schedule"}

\* if (args.k): a key that is missing, an empty string and the number 0 are
\* falsy; arrays (also empty ones) and objects are truthy.
Truthy(o, k) ==
    /\ Has(o, k)
    /\ IF k \in NumKeys THEN o[k] # 0
       ELSE IF k \in ArrKeys \cup ObjKeys THEN TRUE
       ELSE o[k] # ""

\* `${o.k}` for a string-valued key
Str(o, k) == IF Has(o, k) THEN o[k] ELSE "undefined"

\* o.k || d for a string-valued key
OrElse(o, k, d) == IF Truthy(o, k) THEN o[k] ELSE d

\* The properties copied under `if (args.k) params.k = args.k`
\* (PickEveryPresent: the variant that copies every property that is
\* present, against which OptionalArgumentsSentWhenTruthy is tested)
PickEveryPresent(o, K) == [k \in {x \in K : Has(o, x)} |-> o[k]]
Pick(o, K) == [k \in {x \in K : Truthy(o, x)} |-> o[k]]

\* The properties written unconditionally (`query: args.query`): a property
\* whose value is undefined is not serialised by the HTTP client.
Always(o, K) == Restrict(o, K)

(***************************************************************************)
(* The declared tools (ListToolsRequestSchema handler).                    *)
(***************************************************************************)
ToolNames == {
    "list_boxes", "list_devices", "list_alarms", "get_alarm", "delete_alarm",
    "list_rules", "pause_rule", "resume_rule", "create_rule", "update_rule",
    "delete_rule", "list_flows", "list_target_lists", "get_target_list",
    "create_target_list", "update_target_list", "delete_target_list",
    "get_statistics", "get_simple_statistics", "get_trends",
    "search_global", "search_devices", "search_alarms", "search_flows" }

UnknownTool == "unknown_tool"

\* inputSchema.required of each tool
Required(t) ==
    CASE t \in {"get_alarm", "delete_alarm"} -> {"gid", "aid"}
      [] t \in {"pause_rule", "resume_rule", "update_rule", "delete_rule",
                "get_target_list", "update_target_list", "delete_target_list"} -> {"id"}
      [] t = "create_rule" -> {"action", "direction", "protocol", "target"}
      [] t = "create_target_list" -> {"name", "targets"}
      [] t \in {"get_statistics", "get_trends"} -> {"type"}
      [] t \in {"search_global", "search_devices", "search_alarms", "search_flows"} -> {"query"}
      [] OTHER -> {}

\* inputSchema.properties of each tool
Declared(t) ==
    CASE t \in {"list_boxes", "get_simple_statistics"} -> {"group"}
      [] t = "list_devices" -> {"box", "group"}
      [] t \in {"list_alarms", "list_flows"} -> {"query", "groupBy", "sortBy", "limit", "cursor"}
      [] t \in {"get_alarm", "delete_alarm"} -> {"gid", "aid"}
      [] t = "list_rules" -> {"query"}
      [] t \in {"pause_rule", "resume_rule", "delete_rule", "get_target_list",
                "delete_target_list"} -> {"id"}
      [] t = "create_rule" -> {"name", "action", "direction", "protocol", "target",
                               "scope", "schedule"}
      [] t = "update_rule" -> {"id", "name", "action", "direction", "protocol", "target",
                               "scope", "status"}
      [] t = "create_target_list" -> {"name", "targets", "owner", "category", "notes"}
      [] t = "update_target_list" -> {"id", "name", "targets", "owner", "category", "notes"}
      [] t = "get_statistics" -> {"type", "group", "limit"}
      [] t = "get_trends" -> {"type", "group"}
      [] t = "search_global" -> {"query", "types", "limit", "cursor"}
      [] t \in {"search_devices", "search_alarms", "search_flows"} -> {"query", "limit", "cursor"}
      [] OTHER -> {}

Optional(t) == Declared(t) \ Required(t)

(***************************************************************************)
(* The outbound request of each tool: verb, path and query/body            *)
(* parameters, as the cases of the CallToolRequestSchema handler build     *)
(* them.  A path is the sequence of its segments.                          *)
(***************************************************************************)
Verb(t) ==
    CASE t \in {"delete_alarm", "delete_rule", "delete_target_list"} -> "DELETE"
      [] t \in {"pause_rule", "resume_rule", "create_rule", "create_target_list"} -> "POST"
      [] t = "update_rule" -> "PUT"
      [] t = "update_target_list" -> "PATCH"
      [] OTHER -> "GET"

Path(t, a) ==
    CASE t = "list_boxes" -> <<"boxes">>
      [] t \in {"list_devices", "search_devices"} -> <<"devices">>
      [] t \in {"list_alarms", "search_alarms"} -> <<"alarms">>
      [] t \in {"get_alarm", "delete_alarm"} -> <<"alarms", Str(a, "gid"), Str(a, "aid")>>
      [] t \in {"list_rules", "create_rule"} -> <<"rules">>
      [] t = "pause_rule" -> <<"rules", Str(a, "id"), "pause">>
      [] t = "resume_rule" -> <<"rules", Str(a, "id"), "resume">>
      [] t \in {"update_rule", "delete_rule"} -> <<"rules", Str(a, "id")>>
      [] t \in {"list_flows", "search_flows"} -> <<"flows">>
      [] t \in {"list_target_lists", "create_target_list"} -> <<"target-lists">>
      [] t \in {"get_target_list", "update_target_list", "delete_target_list"} ->
            <<"target-lists", Str(a, "id")>>
      [] t = "get_statistics" -> <<"stats", Str(a, "type")>>
      [] t = "get_simple_statistics" -> <<"stats", "simple">>
      [] t = "get_trends" -> <<"trends", Str(a, "type")>>

\* limit: args.limit || d
LimitOr(a, d) == [limit |-> IF Truthy(a, "limit") THEN a.limit ELSE d]

SearchGlobalDefaultLimit == 10
SearchDefaultLimit == 50

Params(t, a) ==
    CASE t \in {"list_boxes", "get_simple_statistics", "get_trends"} -> Pick(a, {"group"})
      [] t = "list_devices" -> Pick(a, {"box", "group"})
      [] t \in {"list_alarms", "list_flows"} ->
            Pick(a, {"query", "groupBy", "sortBy", "limit", "cursor"})
      [] t = "list_rules" -> Pick(a, {"query"})
      [] t = "create_rule" ->
            Always(a, {"action", "direction", "protocol", "target"})
                @@ Pick(a, {"name", "scope", "schedule"})
      [] t = "update_rule" ->
            Pick(a, {"name", "action", "direction", "protocol", "target", "scope", "status"})
      [] t = "create_target_list" ->
            Always(a, {"name", "targets"}) @@ Pick(a, {"owner", "category", "notes"})
      [] t = "update_target_list" ->
            Pick(a, {"name", "targets", "owner", "category", "notes"})
      [] t = "get_statistics" -> Pick(a, {"group", "limit"})
      [] t \in {"search_devices", "search_alarms", "search_flows"} ->
            Always(a, {"query"}) @@ LimitOr(a, SearchDefaultLimit) @@ Pick(a, {"cursor"})
      [] OTHER -> EmptyObject

Request(t, a) == [verb |-> Verb(t), path |-> Path(t, a), params |-> Params(t, a)]

\* The requests a case other than search_global sends before it returns:
\* the one httpClient call it awaits.
\* (IssuedTwice: the variant that sends it again, against which
\* ExactlyOneRequest is tested)
IssuedTwice(t, a) == <<Request(t, a), Request(t, a)>>
Issued(t, a) == <<Request(t, a)>>

(***************************************************************************)
(* A failed upstream request, as the axios error the handler catches:      *)
(* status is error.response?.status (NoStatus when there is no response:   *)
(* a network failure), upstream is error.response?.data?.message ("" when  *)
(* the body carries none) and message is error.message.                    *)
(***************************************************************************)
NoStatus == 0
FailStatuses == {400, 401, 403, 404, 500}

Failures ==
    { [status |-> s, upstream |-> u, message |-> "Request failed with status code"] :
        s \in FailStatuses, u \in {"", "upstream message"} }
    \cup { [status |-> NoStatus, upstream |-> "", message |-> "Network Error"] }

\* The failures of the one request of the other tools
ToolFailures ==
    {f \in Failures : f.status \in {401, 403, 404} => f.upstream # ""}

\* The failures of a sub-request of search_global
SearchFailures == {f \in Failures : f.status \in {NoStatus, 404} /\ f.upstream = ""}

\* error.response?.data?.message || error.message
ErrorMessage(f) == IF f.upstream # "" THEN f.upstream ELSE f.message

\* The catch block of the handler, for an axios error.
\* (MapAxiosErrorAllInternal: the variant without the three status cases,
\* against which UpstreamFailureMapped is tested)
MapAxiosErrorAllInternal(f) ==
    [kind |-> "error", code |-> "InternalError",
     message |-> <<"API request failed: ", ErrorMessage(f)>>]
MapAxiosError(f) ==
    IF f.status = 401
    THEN [kind |-> "error", code |-> "InvalidRequest",
          message |-> <<"Authentication failed. Check your API key.">>]
    ELSE IF f.status = 404
    THEN [kind |-> "error", code |-> "InvalidRequest", message |-> <<"Resource not found.">>]
    ELSE IF f.status = 400
    THEN [kind |-> "error", code |-> "InvalidRequest",
          message |-> <<"Bad request: ", ErrorMessage(f)>>]
    ELSE [kind |-> "error", code |-> "InternalError",
          message |-> <<"API request failed: ", ErrorMessage(f)>>]

UnknownToolErrorAsInvalidRequest(n) ==
    [kind |-> "error", code |-> "InvalidRequest", message |-> <<"Unknown tool: ", n>>]

\* default: throw new McpError(ErrorCode.MethodNotFound, `Unknown tool: ${name}`);
\* the catch block rethrows what is not an axios error.
UnknownToolError(n) ==
    [kind |-> "error", code |-> "MethodNotFound", message |-> <<"Unknown tool: ", n>>]

(***************************************************************************)
(* Upstream payloads (response.data).  A payload is a JSON array or a JSON *)
(* object; `results` of an object is an array or null.                     *)
(***************************************************************************)
ArrData(items) == [isArray |-> TRUE, items |-> items, obj |-> EmptyObject]
ObjData(o) == [isArray |-> FALSE, items |-> <<>>, obj |-> o]

Arr(items) == [isNull |-> FALSE, items |-> items]
NullArr == [isNull |-> TRUE, items |-> <<>>]

\* data.results is truthy
HasResults(d) == ~d.isArray /\ Has(d.obj, "results") /\ ~d.obj.results.isNull

\* data.results || []
ResultsOrEmpty(d) == IF HasResults(d) THEN d.obj.results.items ELSE <<>>

\* data.results || data || []   (data itself is an object or an array: truthy)
ResultsOrData(d) == IF HasResults(d) THEN ArrData(d.obj.results.items) ELSE d

\* `${x.length}`: an object that is not an array has no length
LengthPiece(x) == IF x.isArray THEN ToString(Len(x.items)) ELSE "undefined"

\* x.length > 0   (undefined > 0 is false)
NonEmpty(x) == x.isArray /\ Len(x.items) > 0

\* Array.isArray(response.data) ? { count: response.data.length, results: response.data }
\*                               : response.data
WrapArray(d) ==
    IF d.isArray THEN ObjData([count |-> Len(d.items), results |-> Arr(d.items)]) ELSE d

(***************************************************************************)
(* Sequence helpers.                                                       *)
(***************************************************************************)
RECURSIVE Concat(_)
Concat(ss) == IF ss = <<>> THEN <<>> ELSE Head(ss) \o Concat(Tail(ss))

\* array.map(F) joined into one text
Each(s, F(_)) == Concat([i \in 1..Len(s) |-> F(s[i])])

\* array.filter(P)
Filter(s, P(_)) == Concat([i \in 1..Len(s) |-> IF P(s[i]) THEN <<s[i]>> ELSE <<>>])

RECURSIVE Sum(_)
Sum(ns) == IF ns = <<>> THEN 0 ELSE Head(ns) + Sum(Tail(ns))

\* array.reduce((sum, x) => sum + F(x), 0)
SumOver(s, F(_)) == Sum([i \in 1..Len(s) |-> F(s[i])])

\* array.slice(0, n)
Take(s, n) == SubSeq(s, 1, IF Len(s) < n THEN Len(s) ELSE n)

\* The keys of a Record<string, number> built by counting, in insertion order
RECURSIVE DistinctKeys(_)
DistinctKeys(ks) ==
    IF ks = <<>> THEN <<>>
    ELSE LET rest == DistinctKeys(SubSeq(ks, 1, Len(ks) - 1))
             last == ks[Len(ks)]
         IN IF \E i \in 1..Len(rest) : rest[i] = last THEN rest ELSE Append(rest, last)

CountOf(ks, key) == Cardinality({i \in 1..Len(ks) : ks[i] = key})

\* Object.entries(count).map(([key, n]) => `${key} (${n})`)
\* (a key is a text: the sequence of its pieces)
CountEntries(ks) == Each(DistinctKeys(ks), LAMBDA key : key \o <<ToString(CountOf(ks, key))>>)

\* Typed property access on upstream entities.
TruthyS(o, k) == Has(o, k) /\ o[k] # ""
TruthyN(o, k) == Has(o, k) /\ o[k] # 0
TruthyB(o, k) == Has(o, k) /\ o[k]
\* o.k || d
OrS(o, k, d) == IF TruthyS(o, k) THEN o[k] ELSE d
OrN(o, k, d) == IF TruthyN(o, k) THEN o[k] ELSE d
\* `${o.k}` for a number-valued key
StrN(o, k) == IF Has(o, k) THEN ToString(o[k]) ELSE "undefined"
\* o.k?.  (a missing nested object reads as an object without keys)
Sub(o, k) == IF Has(o, k) THEN o[k] ELSE EmptyObject

\* entries.sort((a, b) => w(b) - w(a)): stable, by weight descending; w is a
\* function from the keys to their weights
RECURSIVE InsertByWeight(_, _, _)
InsertByWeight(sorted, key, w) ==
    IF sorted = <<>> THEN <<key>>
    ELSE IF w[Head(sorted)] >= w[key]
         THEN <<Head(sorted)>> \o InsertByWeight(Tail(sorted), key, w)
         ELSE <<key>> \o sorted

RECURSIVE SortDesc(_, _)
SortDesc(keys, w) ==
    IF keys = <<>> THEN <<>>
    ELSE InsertByWeight(SortDesc(SubSeq(keys, 1, Len(keys) - 1), w), keys[Len(keys)], w)

Range(s) == {s[i] : i \in 1..Len(s)}

\* Object.entries(count).sort((a, b) => b[1] - a[1])
SortByCount(keys, ks) == SortDesc(keys, [k \in Range(keys) |-> CountOf(ks, k)])

SortedCountEntries(ks) ==
    Each(SortByCount(DistinctKeys(ks), ks), LAMBDA key : key \o <<ToString(CountOf(ks, key))>>)

(***************************************************************************)
(* The metadata map a tool passes to the formatter: an ordered list of     *)
(* entries, each with its key, String(value) and the truthiness of value.  *)
(***************************************************************************)
Entry(k, text, truthy) == [key |-> k, text |-> text, truthy |-> truthy]

\* k: args.ak || null
OrNull(k, a, ak) ==
    IF Truthy(a, ak)
    THEN Entry(k, IF ak \in NumKeys THEN ToString(a[ak]) ELSE a[ak], TRUE)
    ELSE Entry(k, "null", FALSE)

\* k: args.ak   (a string argument)
AsGiven(k, a, ak) ==
    IF Has(a, ak) THEN Entry(k, a[ak], a[ak] # "") ELSE Entry(k, "undefined", FALSE)

\* k: n   (a number)
Number(k, n) == Entry(k, ToString(n), n # 0)

\* metadata.k is truthy
MdTruthy(md, k) == \E i \in 1..Len(md) : md[i].key = k /\ md[i].truthy

\* metadata.k || d
MdOr(md, k, d) ==
    IF MdTruthy(md, k) THEN md[CHOOSE i \in 1..Len(md) : md[i].key = k /\ md[i].truthy].text
    ELSE d

\* `${metadata.k}`
MdStr(md, k) ==
    IF \E i \in 1..Len(md) : md[i].key = k
    THEN md[CHOOSE i \in 1..Len(md) : md[i].key = k].text
    ELSE "undefined"

(***************************************************************************)
(* FirewallaResponseFormatter: helpers.                                    *)
(***************************************************************************)
\* formatDate(timestamp): the locale rendering of the instant
formatDate(ts) == <<"date", ToString(ts)>>

K == 1024
Sizes == <<"B", "KB", "MB", "GB", "TB">>

RECURSIVE Pow(_, _)
Pow(b, e) == IF e = 0 THEN 1 ELSE b * Pow(b, e - 1)

\* Math.floor(Math.log(bytes) / Math.log(k)), for bytes >= 1
RECURSIVE LogK(_)
LogK(bytes) == IF bytes < K THEN 0 ELSE 1 + LogK(bytes \div K)

\* parseFloat(x.toFixed(2)) of x = num / den, as its decimal text
Fixed2(num, den) ==
    LET h == (num \div den) * 100                 \* hundredths, rounded half up
                + ((num % den) * 200 + den) \div (2 * den)
        whole == h \div 100
        frac == h % 100
    IN IF frac = 0 THEN <<ToString(whole)>>
       ELSE IF frac % 10 = 0 THEN <<ToString(whole), ".", ToString(frac \div 10)>>
       ELSE IF frac < 10 THEN <<ToString(whole), ".0", ToString(frac)>>
       ELSE <<ToString(whole), ".", ToString(frac)>>

\* FirewallaResponseFormatter.formatBytes(bytes); bytes is 0 for undefined
formatBytesRich(bytes) ==
    IF bytes = 0 THEN <<"0 B">>
    ELSE LET i == LogK(bytes)
         IN Fixed2(bytes, Pow(K, i)) \o <<" ", IF i + 1 <= Len(Sizes) THEN Sizes[i + 1] ELSE "undefined">>

\* formatBytes(bytes) of the module: no space before the unit
formatBytes(bytes) ==
    IF bytes = 0 THEN <<"0B">>
    ELSE LET i == LogK(bytes)
         IN Fixed2(bytes, Pow(K, i)) \o <<IF i + 1 <= Len(Sizes) THEN Sizes[i + 1] ELSE "undefined">>

(***************************************************************************)
(* XML utility functions. A string is the sequence of its characters.      *)
(***************************************************************************)
\* '&amp;', '&lt;', '&gt;', '&quot;' and '&#39;'
Replacement ==
    [amp |-> <<"&", "a", "m", "p", ";">>,
     lt |-> <<"&", "l", "t", ";">>,
     gt |-> <<"&", "g", "t", ";">>,
     quot |-> <<"&", "q", "u", "o", "t", ";">>,
     apos |-> <<"&", "#", "3", "9", ";">>]

\* str.replace(/ch/g, entity)
ReplaceAll(str, ch, entity) ==
    Concat([i \in 1..Len(str) |-> IF str[i] = ch THEN entity ELSE <<str[i]>>])

escapeXMLAmpersandLast(str) ==
    ReplaceAll(ReplaceAll(ReplaceAll(ReplaceAll(ReplaceAll(str,
        "<", Replacement.lt), ">", Replacement.gt), "\"", Replacement.quot),
        "'", Replacement.apos), "&", Replacement.amp)

\* escapeXML(str) of a string: the five replacements in the order of the
\* chain, & first
escapeXML(str) ==
    ReplaceAll(ReplaceAll(ReplaceAll(ReplaceAll(ReplaceAll(str,
        "&", Replacement.amp), "<", Replacement.lt), ">", Replacement.gt),
        "\"", Replacement.quot), "'", Replacement.apos)

\* The JSON values: a string is the sequence of its characters, a number is
\* a single digit, an object is the list of its entries in insertion order.
JsonNull == [t |-> "null"]
JsonString(chars) == [t |-> "string", chars |-> chars]
JsonNumber(digit) == [t |-> "number", digit |-> digit]
JsonBoolean(b) == [t |-> "boolean", bool |-> b]
JsonArray(items) == [t |-> "array", items |-> items]
JsonObject(entries) == [t |-> "object", entries |-> entries]

\* jsonToXML(obj, indent), as the sequence of the tags and characters it
\* writes; the indentation and the line breaks are left out.
RECURSIVE jsonToXML(_)
jsonToXML(obj) ==
    CASE obj.t = "null" -> <<"<value>", "n", "u", "l", "l", "</value>">>
      [] obj.t = "string" -> <<"<value>">> \o escapeXML(obj.chars) \o <<"</value>">>
      [] obj.t = "number" -> <<"<value>", ToString(obj.digit), "</value>">>
      [] obj.t = "boolean" ->
            <<"<value>">>
            \o (IF obj.bool THEN <<"t", "r", "u", "e">> ELSE <<"f", "a", "l", "s", "e">>)
            \o <<"</value>">>
      [] obj.t = "array" ->
            IF obj.items = <<>> THEN <<"<array>", "</array>">>
            ELSE <<"<array>">>
                 \o Concat([index \in 1..Len(obj.items) |->
                        <<"<item index=\"", ToString(index - 1), "\">">>
                        \o jsonToXML(obj.items[index]) \o <<"</item>">>])
                 \o <<"</array>">>
      [] obj.t = "object" ->
            IF obj.entries = <<>> THEN <<"<object>", "</object>">>
            ELSE <<"<object>">>
                 \o Concat([i \in 1..Len(obj.entries) |->
                        <<"<">> \o escapeXML(obj.entries[i].key) \o <<">">>
                        \o jsonToXML(obj.entries[i].value)
                        \o <<"</">> \o escapeXML(obj.entries[i].key) \o <<">">>])
                 \o <<"</object>">>

\* if (data.next_cursor) { ... Use cursor: `${data.next_cursor}` ... }
PaginationHint(data) ==
    IF TruthyS(data.obj, "next_cursor")
    THEN <<"More results are available. Use cursor: ", data.obj.next_cursor>>
    ELSE <<>>

(***************************************************************************)
(* formatListDevices                                                       *)
(***************************************************************************)
DeviceType(d) == OrS(d, "type", OrS(d, "deviceType", "unknown"))
DeviceIp(d) == OrS(d, "ip", OrS(d, "ipAddress", "N/A"))
DeviceLastSeen(d, none) ==
    IF TruthyN(d, "lastActiveTime") \/ TruthyN(d, "lastSeen")
    THEN formatDate(OrN(d, "lastActiveTime", OrN(d, "lastSeen", 0)))
    ELSE <<none>>

ActiveDeviceRow(d) ==
    <<OrS(d, "name", "Unknown"), DeviceIp(d), OrS(d, "mac", "N/A"), DeviceType(d),
      OrS(Sub(d, "network"), "name", "Unknown")>> \o DeviceLastSeen(d, "Active")

OfflineDeviceRow(d) ==
    <<OrS(d, "name", "Unknown"), DeviceIp(d), OrS(d, "mac", "N/A"), DeviceType(d)>>
        \o DeviceLastSeen(d, "N/A")

formatListDevices(data, metadata) ==
    LET devices == ResultsOrData(data)
        list == devices.items
        active == Filter(list, LAMBDA d : TruthyB(d, "online"))
        offline == Filter(list, LAMBDA d : ~TruthyB(d, "online"))
    IN <<"# Network Device Inventory", "- **Total Devices**: ", LengthPiece(devices)>>
       \o (IF NonEmpty(devices)
           THEN <<"- **Online**: ", ToString(Len(active)),
                  " | **Offline**: ", ToString(Len(list) - Len(active))>>
                \o <<"- **Device Types**: ">>
                \o SortedCountEntries([i \in 1..Len(list) |-> <<DeviceType(list[i])>>])
                \o <<"## Network Distribution">>
                \o SortedCountEntries([i \in 1..Len(list) |->
                        <<OrS(Sub(list[i], "network"), "name", "Unknown Network")>>])
                \o (IF Len(active) > 0
                    THEN <<"## Active Devices">> \o Each(active, ActiveDeviceRow)
                    ELSE <<>>)
                \o (IF Len(offline) > 0
                    THEN <<"## Offline Devices">> \o Each(offline, OfflineDeviceRow)
                    ELSE <<>>)
           ELSE <<"### No devices found">>)
       \o PaginationHint(data)

(***************************************************************************)
(* formatListAlarms                                                        *)
(***************************************************************************)
\* alarm.severity || (alarm.type <= 2 ? 'HIGH' : alarm.type <= 5 ? 'MEDIUM' : 'LOW')
\* (undefined <= n is false)
AlarmSeverityBelowBounds(alarm) ==
    IF TruthyS(alarm, "severity") THEN alarm.severity
    ELSE IF Has(alarm, "type") /\ alarm.type < 2 THEN "HIGH"
    ELSE IF Has(alarm, "type") /\ alarm.type < 5 THEN "MEDIUM"
    ELSE "LOW"

AlarmSeverity(alarm) ==
    IF TruthyS(alarm, "severity") THEN alarm.severity
    ELSE IF Has(alarm, "type") /\ alarm.type <= 2 THEN "HIGH"
    ELSE IF Has(alarm, "type") /\ alarm.type <= 5 THEN "MEDIUM"
    ELSE "LOW"

\* alarm.alarmType || `Type ${alarm.type}`
AlarmTypeLabel(alarm) ==
    IF TruthyS(alarm, "alarmType") THEN <<alarm.alarmType>> ELSE <<"Type ", StrN(alarm, "type")>>

AlarmStatus(alarm) == OrS(alarm, "status", "active")

AlarmDetail(alarm, index) ==
    <<"### Alarm #", ToString(index), " - ">> \o AlarmTypeLabel(alarm)
    \o <<"- **Time**: ">>
    \o (IF TruthyN(alarm, "ts") THEN formatDate(alarm.ts) ELSE <<"N/A">>)
    \o <<"- **Severity**: ", AlarmSeverity(alarm)>>
    \o <<"- **Status**: ", AlarmStatus(alarm)>>
    \o <<"- **Device**: ", OrS(Sub(alarm, "device"), "name", "Unknown Device"),
          OrS(Sub(alarm, "device"), "ip", OrS(Sub(alarm, "device"), "ipAddress", "N/A"))>>
    \o <<"- **Remote**: ",
          OrS(Sub(alarm, "remote"), "domain", OrS(Sub(alarm, "remote"), "ip", "N/A")),
          OrS(Sub(alarm, "remote"), "country", "Unknown")>>
    \o <<"- **Transfer**: ">>
    \o formatBytesRich(OrN(Sub(alarm, "transfer"), "download", 0))
    \o formatBytesRich(OrN(Sub(alarm, "transfer"), "upload", 0))
    \o formatBytesRich(OrN(Sub(alarm, "transfer"), "total", 0))

SeverityCount(alarms, sev) ==
    Cardinality({i \in 1..Len(alarms) : AlarmSeverity(alarms[i]) = sev})

StatusCount(alarms, st) ==
    Cardinality({i \in 1..Len(alarms) : AlarmStatus(alarms[i]) = st})

formatListAlarms(data, metadata) ==
    LET alarms == ResultsOrEmpty(data)
    IN <<"# Firewalla Security Alarms Report",
         "- **Total Alarms**: ", ToString(Len(alarms)),
         "- **Query**: ", MdOr(metadata, "query", "All alarms")>>
       \o (IF Len(alarms) > 0
           THEN <<"- **Severity Breakdown**: ",
                  "High", ToString(SeverityCount(alarms, "HIGH")),
                  "Medium", ToString(SeverityCount(alarms, "MEDIUM")),
                  "Low", ToString(SeverityCount(alarms, "LOW")),
                  "- **Status**: ",
                  "Active", ToString(StatusCount(alarms, "active")),
                  "Acknowledged", ToString(StatusCount(alarms, "acknowledged")),
                  "Resolved", ToString(StatusCount(alarms, "resolved"))>>
                \o <<"## Alarms by Type">>
                \o CountEntries([i \in 1..Len(alarms) |-> AlarmTypeLabel(alarms[i])])
                \o <<"## Detailed Alarms">>
                \o Concat([i \in 1..Len(alarms) |-> AlarmDetail(alarms[i], i)])
           ELSE <<"### No alarms found">>)
       \o PaginationHint(data)

(***************************************************************************)
(* formatListRules.  A rule name is a text: the list_rules handler builds  *)
(* missing names from several pieces.                                      *)
(***************************************************************************)
\* rule.name is truthy
HasName(rule) == Has(rule, "name") /\ rule.name # <<>>

\* rule.name || 'Unnamed Rule'
RuleName(rule) == IF HasName(rule) THEN rule.name ELSE <<"Unnamed Rule">>

\* rule.target ? `${rule.target.type}: ${rule.target.value}` : 'Any'
RuleTarget(rule) ==
    IF Has(rule, "target") THEN <<Str(rule.target, "type"), Str(rule.target, "value")>>
    ELSE <<"Any">>

\* rule.scope ? `${rule.scope.type}: ${rule.scope.value}` : 'All devices'
RuleScope(rule) ==
    IF Has(rule, "scope") THEN <<Str(rule.scope, "type"), Str(rule.scope, "value")>>
    ELSE <<"All devices">>

RuleStatus(rule) == IF Has(rule, "status") /\ rule.status = "active" THEN "Active" ELSE "Paused"

RuleAction(rule) == OrS(rule, "action", "unknown")

\* A row of the Block Rules and of the Allow Rules table
RuleRow(rule) ==
    <<"| **">> \o RuleName(rule) \o <<"** | ">> \o RuleTarget(rule) \o RuleScope(rule)
        \o <<OrS(rule, "direction", "both"), RuleStatus(rule)>>

\* A row of the Time-Limited Rules table
TimeLimitRow(rule) ==
    <<"| **">> \o RuleName(rule) \o <<"** | ">> \o RuleTarget(rule)
        \o <<IF Has(rule, "schedule") THEN Str(rule.schedule, "type") ELSE "No schedule">>
        \o <<RuleStatus(rule)>>

WithAction(list, action) == Filter(list, LAMBDA r : Has(r, "action") /\ r.action = action)

\* The rules that get a table row
RenderedRules(data) ==
    LET rules == ResultsOrData(data)
    IN IF NonEmpty(rules)
       THEN WithAction(rules.items, "block") \o WithAction(rules.items, "allow")
                \o WithAction(rules.items, "time_limit")
       ELSE <<>>

formatListRules(data, metadata) ==
    LET rules == ResultsOrData(data)
        list == rules.items
        activeCount == Len(Filter(list, LAMBDA r : Has(r, "status") /\ r.status = "active"))
        blockRules == WithAction(list, "block")
        allowRules == WithAction(list, "allow")
        timeLimitRules == WithAction(list, "time_limit")
    IN <<"# Firewall Rules Configuration", "- **Total Rules**: ", LengthPiece(rules)>>
       \o (IF NonEmpty(rules)
           THEN <<"- **Active**: ", ToString(activeCount),
                  " | **Paused**: ", ToString(Len(list) - activeCount)>>
                \o <<"- **Rule Types**: ">>
                \* (the first letter of the action is upper-cased)
                \o CountEntries([i \in 1..Len(list) |-> <<RuleAction(list[i])>>])
                \o (IF Len(blockRules) > 0
                    THEN <<"## Block Rules">> \o Each(blockRules, RuleRow) ELSE <<>>)
                \o (IF Len(allowRules) > 0
                    THEN <<"## Allow Rules">> \o Each(allowRules, RuleRow) ELSE <<>>)
                \o (IF Len(timeLimitRules) > 0
                    THEN <<"## Time-Limited Rules">> \o Each(timeLimitRules, TimeLimitRow)
                    ELSE <<>>)
           ELSE <<"### No rules found">>)

\* case "list_rules": the name given to a rule that has none
\*   `${action} ${direction} ${protocol} ${target}`.trim()
\* (action and target are never empty, so trim() removes nothing)
GeneratedName(rule) ==
    <<OrS(rule, "action", "unknown"), " ", OrS(rule, "direction", ""), " ",
      OrS(rule, "protocol", "any"), " ", OrS(Sub(rule, "target"), "value", "any")>>

\* data.results.map(rule => { if (!rule.name) rule.name = ...; return rule; })
\* (NameRuleKeepNothing: the variant that renames every rule, against which
\* RulesAreNamed is tested)
NameRuleKeepNothing(rule) == ("name" :> GeneratedName(rule)) @@ rule
NameRule(rule) == IF HasName(rule) THEN rule ELSE ("name" :> GeneratedName(rule)) @@ rule

\* if (data.results) data.results = data.results.map(...)
NameRules(data) ==
    IF HasResults(data)
    THEN ObjData(("results" :> Arr([i \in 1..Len(data.obj.results.items) |->
                                    NameRule(data.obj.results.items[i])])) @@ data.obj)
    ELSE data

(***************************************************************************)
(* formatTargetLists                                                       *)
(***************************************************************************)
\* (list.targets || []).length
TargetCount(list) == IF Has(list, "targets") THEN Len(list.targets) ELSE 0

TargetListRow(list) ==
    <<"| **", OrS(list, "name", "Unnamed"), OrS(list, "category", "Uncategorized"),
      OrS(list, "owner", "System"), ToString(TargetCount(list)),
      \* (notes are cut to 50 characters)
      OrS(list, "notes", "-")>>

TargetsShown == 5

TargetDetails(list) ==
    IF TargetCount(list) > 0
    THEN <<"### ", Str(list, "name")>> \o Take(list.targets, TargetsShown)
         \o (IF Len(list.targets) > TargetsShown
             THEN <<"...and ", ToString(Len(list.targets) - TargetsShown), " more">>
             ELSE <<>>)
    ELSE <<>>

formatTargetLists(data, metadata) ==
    LET lists == ResultsOrData(data)
        list == lists.items
    IN <<"# Firewalla Target Lists", "- **Total Lists**: ", LengthPiece(lists)>>
       \o (IF NonEmpty(lists)
           THEN <<"- **Total Targets**: ", ToString(SumOver(list, TargetCount))>>
                \o <<"- **Categories**: ">>
                \o CountEntries([i \in 1..Len(list) |->
                                    <<OrS(list[i], "category", "Uncategorized")>>])
                \o <<"## Target Lists">> \o Each(list, TargetListRow)
                \o <<"## Target Details">> \o Each(list, TargetDetails)
           ELSE <<"### No target lists found">>)

(***************************************************************************)
(* formatListFlows                                                         *)
(***************************************************************************)
\* Math.round(part / whole * 100)
Percent(part, whole) == (200 * part + whole) \div (2 * whole)

FlowVolume(flow) == OrN(flow, "upload", 0) + OrN(flow, "download", 0)
FlowDestination(flow, none) == OrS(flow, "domain", OrS(flow, "ip", none))
FlowDeviceId(flow) == OrS(Sub(flow, "device"), "id", OrS(flow, "deviceMAC", "unknown"))
FlowDeviceName(flow) ==
    OrS(Sub(flow, "device"), "name", OrS(flow, "deviceName", FlowDeviceId(flow)))
FlowProtocol(flow) == OrS(flow, "protocol", "unknown")

\* The first flow of the list with the given key
FirstWith(flows, KeyOf(_), key) ==
    flows[CHOOSE i \in 1..Len(flows) :
            KeyOf(flows[i]) = key /\ \A j \in 1..(i - 1) : KeyOf(flows[j]) # key]

TopShown == 10
ProtocolsShown == 3

TopDestinations(flows) ==
    LET keys == DistinctKeys([i \in 1..Len(flows) |-> FlowDestination(flows[i], "unknown")])
        with(key) == Filter(flows, LAMBDA f : FlowDestination(f, "unknown") = key)
        volume == [key \in Range(keys) |-> SumOver(with(key), FlowVolume)]
    IN Each(Take(SortDesc(keys, volume), TopShown),
            LAMBDA key : <<"| **", key,
                           OrS(FirstWith(flows, LAMBDA f : FlowDestination(f, "unknown"), key),
                               "country", "Unknown")>>
                         \o formatBytesRich(volume[key]) \o <<ToString(Len(with(key)))>>)

TopDevices(flows) ==
    LET keys == DistinctKeys([i \in 1..Len(flows) |-> FlowDeviceId(flows[i])])
        with(key) == Filter(flows, LAMBDA f : FlowDeviceId(f) = key)
        volume == [key \in Range(keys) |-> SumOver(with(key), FlowVolume)]
    IN Each(Take(SortDesc(keys, volume), TopShown),
            LAMBDA key : <<"| **", FlowDeviceName(FirstWith(flows, FlowDeviceId, key))>>
                         \o formatBytesRich(SumOver(with(key), LAMBDA f : OrN(f, "upload", 0)))
                         \o formatBytesRich(SumOver(with(key), LAMBDA f : OrN(f, "download", 0)))
                         \o <<ToString(Len(with(key)))>>)

FlowDirection(flow) ==
    IF Has(flow, "direction") /\ flow.direction = "in" THEN "In"
    ELSE IF Has(flow, "direction") /\ flow.direction = "out" THEN "Out"
    ELSE "Bi"

RecentFlowRow(flow) ==
    (IF TruthyN(flow, "ts") THEN formatDate(flow.ts) ELSE <<"N/A">>)
    \o <<OrS(Sub(flow, "device"), "name", OrS(flow, "deviceName", "Unknown")),
          FlowDirection(flow), FlowDestination(flow, "Unknown"),
          \* (the protocol is upper-cased)
          FlowProtocol(flow)>>
    \o formatBytesRich(FlowVolume(flow))

Min(S) == CHOOSE x \in S : \A y \in S : x <= y
Max(S) == CHOOSE x \in S : \A y \in S : x >= y

DirectionCount(flows, dir) ==
    Len(Filter(flows, LAMBDA f : Has(f, "direction") /\ f.direction = dir))

formatListFlows(data, metadata) ==
    LET flows == ResultsOrEmpty(data)
        timestamps == {OrN(flows[i], "ts", 0) : i \in 1..Len(flows)} \ {0}
        protocols == [i \in 1..Len(flows) |-> <<FlowProtocol(flows[i])>>]
        inbound == DirectionCount(flows, "in")
        outbound == DirectionCount(flows, "out")
        bidirectional == DirectionCount(flows, "bi")
        totalDirectional == inbound + outbound + bidirectional
    IN <<"# Network Traffic Flows", "- **Total Flows**: ", ToString(Len(flows))>>
       \o (IF Len(flows) > 0
           THEN (IF timestamps # {}
                 THEN <<"- **Time Period**: ">> \o formatDate(Min(timestamps))
                        \o formatDate(Max(timestamps))
                 ELSE <<>>)
                \o <<"- **Top Protocols**: ">>
                \o Each(Take(SortByCount(DistinctKeys(protocols), protocols), ProtocolsShown),
                        LAMBDA key : key \o <<ToString(Percent(CountOf(protocols, key),
                                                               Len(flows))), "%">>)
                \o (IF totalDirectional > 0
                    THEN <<"- **Direction**: ",
                           "Inbound", ToString(Percent(inbound, totalDirectional)),
                           "Outbound", ToString(Percent(outbound, totalDirectional)),
                           "Bidirectional", ToString(Percent(bidirectional, totalDirectional))>>
                    ELSE <<>>)
                \o <<"- **Total Transfer**: ">>
                \o formatBytesRich(SumOver(flows, LAMBDA f : OrN(f, "upload", 0)))
                \o formatBytesRich(SumOver(flows, LAMBDA f : OrN(f, "download", 0)))
                \o <<"## Top Destinations by Volume">> \o TopDestinations(flows)
                \o <<"## Top Devices by Traffic">> \o TopDevices(flows)
                \o <<"## Recent Traffic Flows">> \o Each(Take(flows, TopShown), RecentFlowRow)
           ELSE <<"### No flows found">>)
       \o PaginationHint(data)

(***************************************************************************)
(* formatStatistics, formatSimpleStatistics, formatGetTrends               *)
(***************************************************************************)
\* item.a || item.b || 0, as text
CountPiece(item, a, b) == ToString(OrN(item, a, OrN(item, b, 0)))

StatisticsItem(item, index, nameA, nameB, unknown, countA, detail, detailLabel) ==
    <<ToString(index), OrS(item, nameA, OrS(item, nameB, unknown)),
      CountPiece(item, countA, "count")>>
    \o (IF TruthyS(item, detail) THEN <<detailLabel, item[detail]>> ELSE <<>>)

formatStatistics(data, metadata) ==
    LET results == ResultsOrData(data)
        list == results.items
        statsType == MdOr(metadata, "stats_type", "statistics")
    IN <<"# Firewalla Analytics Dashboard", "## Statistics Report: ", statsType>>
       \o (IF NonEmpty(results)
           THEN CASE statsType = "topBoxesByBlockedFlows" ->
                       <<"### Top Boxes by Blocked Flows">>
                       \o Concat([i \in 1..Len(list) |->
                            StatisticsItem(list[i], i, "name", "boxName", "Unknown Box",
                                           "blockedFlows", "topBlockedDomain", "Top blocked: ")])
                  [] statsType = "topBoxesBySecurityAlarms" ->
                       <<"### Top Boxes by Security Alarms">>
                       \o Concat([i \in 1..Len(list) |->
                            StatisticsItem(list[i], i, "name", "boxName", "Unknown Box",
                                           "alarmCount", "topAlarmType", "Most common: ")])
                  [] statsType = "topRegionsByBlockedFlows" ->
                       <<"### Top Regions by Blocked Flows">>
                       \o Concat([i \in 1..Len(list) |->
                            StatisticsItem(list[i], i, "region", "country", "Unknown",
                                           "blockedFlows", "topCategory", "Top category: ")])
                  [] OTHER ->
                       \* JSON.stringify(item, null, 2) of each item
                       <<"### Results">>
                       \o Concat([i \in 1..Len(list) |-> <<ToString(i), "JSON">>])
           ELSE <<"### No data available">>)

formatSimpleStatistics(data, metadata) ==
    <<"# Firewalla System Overview",
      "- **Online Boxes**: ", ToString(OrN(data.obj, "onlineBoxes", 0)),
      "- **Offline Boxes**: ", ToString(OrN(data.obj, "offlineBoxes", 0)),
      "- **Active Alarms**: ", ToString(OrN(data.obj, "alarms", 0)),
      "- **Total Rules**: ", ToString(OrN(data.obj, "rules", 0))>>
    \o (IF MdTruthy(metadata, "group")
        THEN <<"*Filtered by group: ", MdStr(metadata, "group")>> ELSE <<>>)

TrendTime(point) == IF TruthyN(point, "timestamp") THEN formatDate(point.timestamp) ELSE <<"N/A">>

TrendRow(point, columns) ==
    TrendTime(point) \o [i \in 1..Len(columns) |-> ToString(OrN(point, columns[i], 0))]

FlowTrendRow(point) ==
    TrendRow(point, <<"total", "blocked", "allowed">>)
    \o formatBytesRich(OrN(point, "upload", 0)) \o formatBytesRich(OrN(point, "download", 0))

\* Math.abs((last - first) / first * 100) to one decimal, in tenths of a percent
ChangeTenths(first, last) ==
    LET d == IF last >= first THEN last - first ELSE first - last
    IN (2000 * d + first) \div (2 * first)

TrendInsights(trends, trendType) ==
    LET firstPoint == trends[1]
        lastPoint == trends[Len(trends)]
    IN IF Len(trends) >= 2 /\ trendType \in {"flows", "alarms", "rules"}
          /\ TruthyN(firstPoint, "total") /\ TruthyN(lastPoint, "total")
       THEN IF trendType = "rules"
            THEN <<ToString(IF lastPoint.total >= firstPoint.total
                            THEN lastPoint.total - firstPoint.total
                            ELSE firstPoint.total - lastPoint.total),
                   IF lastPoint.total > firstPoint.total THEN "added" ELSE "removed">>
            ELSE <<IF trendType = "flows" THEN "- Flow volume " ELSE "- Alarm count ",
                   IF lastPoint.total > firstPoint.total
                      /\ ChangeTenths(firstPoint.total, lastPoint.total) > 0
                   THEN "increased" ELSE "decreased",
                   "tenths of a percent", ToString(ChangeTenths(firstPoint.total, lastPoint.total))>>
       ELSE <<>>

formatGetTrends(data, metadata) ==
    LET trends == ResultsOrData(data)
        list == trends.items
        trendType == MdOr(metadata, "trends_type", "trends")
        timestamps == {OrN(list[i], "timestamp", OrN(list[i], "ts", 0)) : i \in 1..Len(list)} \ {0}
    IN \* (the first letter of the type is upper-cased in the title)
       <<"# Firewalla ", trendType, " Trends",
         "- **Data Points**: ", LengthPiece(trends), "- **Type**: ", trendType>>
       \o (IF MdTruthy(metadata, "group")
           THEN <<"- **Group Filter**: ", MdStr(metadata, "group")>> ELSE <<>>)
       \o (IF NonEmpty(trends)
           THEN (IF timestamps # {}
                 THEN <<"- **Time Range**: ">> \o formatDate(Min(timestamps))
                        \o formatDate(Max(timestamps))
                 ELSE <<>>)
                \o <<"## Trend Data">>
                \o (IF trendType = "flows" THEN Each(list, FlowTrendRow)
                    ELSE IF trendType = "alarms"
                    THEN Each(list, LAMBDA pt : TrendRow(pt, <<"total", "high", "medium", "low">>))
                    ELSE IF trendType = "rules"
                    THEN Each(list, LAMBDA pt :
                            TrendRow(pt, <<"total", "active", "paused", "block", "allow">>))
                    ELSE <<>>)
                \o <<"## Key Insights">> \o TrendInsights(list, trendType)
           ELSE <<"### No trend data available", trendType>>)

(***************************************************************************)
(* formatSearchGlobal.  The result map of search_global is an object keyed *)
(* by entity type: keys holds its keys in insertion order, at its values.  *)
(***************************************************************************)
EmptyMap == [keys |-> <<>>, at |-> EmptyObject]

\* results[key] = value
MapSet(m, key, value) ==
    [keys |-> IF Has(m.at, key) THEN m.keys ELSE Append(m.keys, key),
     at |-> (key :> value) @@ m.at]

\* data.k && data.k.length > 0
MapNonEmpty(m, key) == Has(m.at, key) /\ Len(m.at[key]) > 0

\* Object.entries(data).forEach(([type, results]) => { if (Array.isArray(results)) total += results.length })
MapTotal(m) == Sum([i \in 1..Len(m.keys) |-> Len(m.at[m.keys[i]])])

MoreTrailer(list, what) ==
    IF Len(list) > TopShown
    THEN <<"...and ", ToString(Len(list) - TopShown), " more ", what>>
    ELSE <<>>

SearchDeviceRow(device) ==
    <<OrS(device, "name", "Unknown"), DeviceIp(device), OrS(device, "mac", "N/A"),
      DeviceType(device), IF TruthyB(device, "online") THEN "Online" ELSE "Offline">>

SearchAlarmRow(alarm) ==
    (IF TruthyN(alarm, "ts") THEN formatDate(alarm.ts) ELSE <<"N/A">>)
    \o AlarmTypeLabel(alarm)
    \o <<OrS(Sub(alarm, "device"), "name", "Unknown"), OrS(alarm, "severity", "MEDIUM")>>

SearchFlowRow(flow) ==
    (IF TruthyN(flow, "ts") THEN formatDate(flow.ts) ELSE <<"N/A">>)
    \o <<OrS(Sub(flow, "device"), "name", "Unknown"), FlowDirection(flow),
          FlowDestination(flow, "Unknown")>>
    \o formatBytesRich(FlowVolume(flow))

SearchBoxRow(box) ==
    <<OrS(box, "name", "Unknown"), OrS(box, "model", "N/A"), OrS(box, "version", "N/A"),
      IF TruthyB(box, "online") THEN "Online" ELSE "Offline">>

formatSearchGlobal(data, metadata) ==
    <<"# Firewalla Global Search Results",
      "- **Query**: ", MdOr(metadata, "query", "All"),
      "- **Total Results**: ", ToString(MapTotal(data)), "- **Result Types**: ">>
    \o Each(Filter(data.keys, LAMBDA type : Len(data.at[type]) > 0),
            LAMBDA type : <<type, ToString(Len(data.at[type]))>>)
    \o (IF MapNonEmpty(data, "devices")
        THEN <<"## Devices", ToString(Len(data.at.devices))>>
             \o Each(Take(data.at.devices, TopShown), SearchDeviceRow)
             \o MoreTrailer(data.at.devices, "devices")
        ELSE <<>>)
    \o (IF MapNonEmpty(data, "alarms")
        THEN <<"## Alarms", ToString(Len(data.at.alarms))>>
             \o Each(Take(data.at.alarms, TopShown), SearchAlarmRow)
             \o MoreTrailer(data.at.alarms, "alarms")
        ELSE <<>>)
    \o (IF MapNonEmpty(data, "flows")
        THEN <<"## Flows", ToString(Len(data.at.flows))>>
             \o Each(Take(data.at.flows, TopShown), SearchFlowRow)
             \o MoreTrailer(data.at.flows, "flows")
        ELSE <<>>)
    \o (IF MapNonEmpty(data, "boxes")
        THEN <<"## Boxes", ToString(Len(data.at.boxes))>> \o Each(data.at.boxes, SearchBoxRow)
        ELSE <<>>)
    \o (IF MapTotal(data) = 0 THEN <<"### No results found">> ELSE <<>>)

(***************************************************************************)
(* formatAsXML and FirewallaResponseFormatter.formatEnhancedResponse.  The *)
(* envelope is kept as its parts; threw tells that building it raised a    *)
(* TypeError.                                                              *)
(***************************************************************************)
formatAsXML(data, responseType, metadata) ==
    [threw |-> FALSE, form |-> "baseline", response_type |-> responseType,
     metadata |-> metadata, data |-> data]

Enhanced(data, responseType, metadata, presentation, title, summary) ==
    [threw |-> FALSE, form |-> "enhanced", response_type |-> responseType,
     metadata |-> metadata, presentation |-> presentation, title |-> title,
     summary |-> summary, data |-> data]

TypeError == [threw |-> TRUE]

\* ${enhancedMetadata.query ? ` matching "${enhancedMetadata.query}"` : ''}
Matching(metadata) ==
    IF MdTruthy(metadata, "query") THEN <<" matching ", MdStr(metadata, "query")>> ELSE <<>>

\* enhancedMetadata.query ? `${prefix} - ${enhancedMetadata.query}` : plain
QueryTitle(metadata, prefix, plain) ==
    IF MdTruthy(metadata, "query") THEN <<prefix, MdStr(metadata, "query")>> ELSE <<plain>>

formatEnhancedResponse(data, responseType, metadata) ==
    CASE responseType \in {"list_alarms", "search_alarms"} ->
            Enhanced(data, responseType, metadata, formatListAlarms(data, metadata),
                     QueryTitle(metadata, "Firewalla Alarms Report - ",
                                "Firewalla Security Alarms Report"),
                     <<"Found ", ToString(Len(ResultsOrEmpty(data))), " alarms">>
                        \o Matching(metadata))
      [] responseType \in {"list_devices", "search_devices"} ->
            LET deviceData == ResultsOrData(data)
                onlineCount == Len(Filter(deviceData.items, LAMBDA d : TruthyB(d, "online")))
            IN IF ~deviceData.isArray THEN TypeError      \* deviceData.filter is not a function
               ELSE Enhanced(data, responseType, metadata, formatListDevices(data, metadata),
                        QueryTitle(metadata, "Network Device Inventory - ",
                                   "Network Device Inventory"),
                        <<"Found ", LengthPiece(deviceData), " devices",
                          ToString(onlineCount), " online",
                          ToString(Len(deviceData.items) - onlineCount), " offline">>
                            \o Matching(metadata))
      [] responseType = "list_rules" ->
            LET ruleData == ResultsOrData(data)
                activeRules == Len(Filter(ruleData.items,
                                          LAMBDA r : Has(r, "status") /\ r.status = "active"))
            IN IF ~ruleData.isArray THEN TypeError          \* ruleData.filter is not a function
               ELSE Enhanced(data, responseType, metadata, formatListRules(data, metadata),
                        <<"Firewall Rules Configuration">>,
                        <<"Found ", LengthPiece(ruleData), " rules",
                          ToString(activeRules), " active",
                          ToString(Len(ruleData.items) - activeRules), " paused">>)
      [] responseType = "get_statistics" ->
            Enhanced(data, responseType, metadata, formatStatistics(data, metadata),
                     <<"Firewalla Analytics - ", MdOr(metadata, "stats_type", "Statistics")>>,
                     <<"Showing top ", LengthPiece(ResultsOrData(data)), " results for ",
                       MdStr(metadata, "stats_type")>>)
      [] responseType = "get_simple_statistics" ->
            Enhanced(data, responseType, metadata, formatSimpleStatistics(data, metadata),
                     <<"Firewalla System Overview">>,
                     <<"System has ", ToString(OrN(data.obj, "onlineBoxes", 0)), " online boxes",
                       ToString(OrN(data.obj, "alarms", 0)), " alarms",
                       ToString(OrN(data.obj, "rules", 0)), " rules">>)
      [] responseType \in {"list_flows", "search_flows"} ->
            Enhanced(data, responseType, metadata, formatListFlows(data, metadata),
                     QueryTitle(metadata, "Network Traffic Flows - ",
                                "Network Traffic Flows Report"),
                     <<"Found ", ToString(Len(ResultsOrEmpty(data))), " flows",
                       " with total transfer of ">>
                        \o formatBytesRich(SumOver(ResultsOrEmpty(data), FlowVolume))
                        \o Matching(metadata))
      [] responseType \in {"list_target_lists", "get_target_list"} ->
            LET listData == ResultsOrData(data)
                totalTargets == IF listData.isArray THEN SumOver(listData.items, TargetCount)
                                ELSE TargetCount(listData.obj)
            IN Enhanced(data, responseType, metadata, formatTargetLists(data, metadata),
                        <<"Firewalla Target Lists Configuration">>,
                        <<"Found ",
                          IF listData.isArray THEN ToString(Len(listData.items)) ELSE "1",
                          " target lists with ", ToString(totalTargets), " total targets">>)
      [] responseType = "get_trends" ->
            Enhanced(data, responseType, metadata, formatGetTrends(data, metadata),
                     <<"Firewalla ", MdOr(metadata, "trends_type", "trends"), " Trends Analysis">>,
                     <<"Showing ", LengthPiece(ResultsOrData(data)), " data points for ",
                       MdOr(metadata, "trends_type", "trends")>>)
      [] responseType = "search_global" ->
            Enhanced(data, responseType, metadata, formatSearchGlobal(data, metadata),
                     <<"Firewalla Global Search - ", MdOr(metadata, "query", "All")>>,
                     <<"Found ", ToString(MapTotal(data)), " total results">>)
      [] OTHER -> formatAsXML(data, responseType, metadata)

(***************************************************************************)
(* The CallToolRequestSchema handler: what each case returns once its      *)
(* upstream request has succeeded with payload d.                          *)
(***************************************************************************)
Plain(text) == [threw |-> FALSE, form |-> "plain", text |-> text]

\* data.count || data.results?.length || 0
CountOrLength(d) ==
    IF TruthyN(d.obj, "count") THEN d.obj.count ELSE Len(ResultsOrEmpty(d))

\* (args.target as any)?.k
TargetPart(k, a, part) ==
    IF Has(a, "target") /\ Has(a.target, part)
    THEN Entry(k, a.target[part], a.target[part] # "")
    ELSE Entry(k, "undefined", FALSE)

\* updated_fields: Object.keys(body), field_count: Object.keys(body).length
UpdatedFields(body) ==
    <<Entry("updated_fields", ToString(DOMAIN body), TRUE),
      Number("field_count", Cardinality(DOMAIN body))>>

\* limit: args.limit || d
LimitEntry(a, d) == Number("limit", LimitOr(a, d).limit)

ListingMetadata(a) ==
    <<OrNull("query", a, "query"), OrNull("group_by", a, "groupBy"),
      OrNull("sort_by", a, "sortBy"), OrNull("limit", a, "limit"),
      OrNull("cursor", a, "cursor")>>

SearchMetadata(a) ==
    <<AsGiven("query", a, "query"), LimitEntry(a, SearchDefaultLimit),
      OrNull("cursor", a, "cursor")>>

ToolResult(t, a, d) ==
    CASE t = "list_boxes" ->
            formatAsXML(WrapArray(d), t, <<Number("count", CountOrLength(WrapArray(d)))>>)
      [] t = "list_devices" ->
            formatEnhancedResponse(WrapArray(d), t,
                                   <<OrNull("box", a, "box"), OrNull("group", a, "group")>>)
      [] t = "list_alarms" -> formatEnhancedResponse(d, t, ListingMetadata(a))
      [] t = "get_alarm" ->
            formatAsXML(d, t, <<AsGiven("gid", a, "gid"), AsGiven("aid", a, "aid")>>)
      [] t = "delete_alarm" -> Plain("Alarm deleted successfully")
      [] t = "list_rules" ->
            formatEnhancedResponse(NameRules(WrapArray(d)), t, <<OrNull("query", a, "query")>>)
      [] t = "pause_rule" -> Plain("Rule paused successfully")
      [] t = "resume_rule" -> Plain("Rule resumed successfully")
      [] t = "create_rule" ->
            formatAsXML(d, t, <<AsGiven("action", a, "action"),
                                AsGiven("direction", a, "direction"),
                                AsGiven("protocol", a, "protocol"),
                                TargetPart("target_type", a, "type"),
                                TargetPart("target_value", a, "value")>>)
      [] t = "update_rule" ->
            formatAsXML(d, t, <<AsGiven("rule_id", a, "id")>> \o UpdatedFields(Params(t, a)))
      [] t = "delete_rule" -> Plain("Rule deleted successfully")
      [] t = "list_flows" -> formatEnhancedResponse(d, t, ListingMetadata(a))
      [] t = "list_target_lists" ->
            formatEnhancedResponse(WrapArray(d), t,
                                   <<Number("count", CountOrLength(WrapArray(d)))>>)
      [] t = "get_target_list" ->
            formatEnhancedResponse(d, t, <<AsGiven("target_list_id", a, "id")>>)
      [] t = "create_target_list" ->
            formatEnhancedResponse(d, "list_target_lists",
                <<AsGiven("name", a, "name"),
                  Number("target_count", IF Has(a, "targets") THEN Len(a.targets) ELSE 0),
                  OrNull("owner", a, "owner"), OrNull("category", a, "category")>>)
      [] t = "update_target_list" ->
            formatAsXML(d, t, <<AsGiven("target_list_id", a, "id")>>
                                 \o UpdatedFields(Params(t, a)))
      [] t = "delete_target_list" -> Plain("Target list deleted successfully")
      [] t = "get_statistics" ->
            formatEnhancedResponse(WrapArray(d), t,
                <<AsGiven("stats_type", a, "type"), OrNull("group", a, "group"),
                  OrNull("limit", a, "limit")>>)
      [] t = "get_simple_statistics" ->
            formatEnhancedResponse(d, t, <<OrNull("group", a, "group")>>)
      [] t = "get_trends" ->
            formatEnhancedResponse(WrapArray(d), t,
                <<AsGiven("trends_type", a, "type"), OrNull("group", a, "group"),
                  Number("count", CountOrLength(WrapArray(d)))>>)
      [] t \in {"search_devices", "search_alarms"} ->
            formatEnhancedResponse(d, t, SearchMetadata(a))
      [] t = "search_flows" ->
            formatAsXML(d, t,
                <<AsGiven("query", a, "query"), LimitEntry(a, SearchDefaultLimit),
                  Number("count", Len(ResultsOrEmpty(d))),
                  Entry("has_more", IF TruthyS(d.obj, "next_cursor") THEN "true" ELSE "false",
                        TruthyS(d.obj, "next_cursor")),
                  Entry("next_cursor", OrS(d.obj, "next_cursor", "null"),
                        TruthyS(d.obj, "next_cursor"))>>)

\* What the handler hands back for a formatted document: the tool result, or
\* the TypeError the formatter raised, which the catch block rethrows.
Completed(doc) ==
    IF doc.threw THEN [kind |-> "thrown", error |-> "TypeError"]
    ELSE [kind |-> "result", doc |-> doc]

(***************************************************************************)
(* search_global: the loop over the entity types.                          *)
(***************************************************************************)
DefaultSearchTypes == <<"devices", "alarms", "flows", "boxes">>
Searchable == {"devices", "alarms", "flows", "boxes"}

\* (args.types as string[]) || ["devices", "alarms", "flows", "boxes"]
SearchTypes(a) == IF Has(a, "types") THEN a.types ELSE DefaultSearchTypes

SearchRequestWithoutCursor(entityType, a) ==
    [verb |-> "GET", path |-> <<entityType>>,
     params |-> Always(a, {"query"}) @@ LimitOr(a, SearchGlobalDefaultLimit)]

SearchRequest(entityType, a) ==
    [verb |-> "GET", path |-> <<entityType>>,
     params |-> Always(a, {"query"}) @@ LimitOr(a, SearchGlobalDefaultLimit)
                    @@ Pick(a, {"cursor"})]

\* The loop skips (continue) the entity types it has no endpoint for: the
\* position of the next searchable type at or after i, Len + 1 when none.
NextEntry(types, i) == i

RECURSIVE NextSearchable(_, _)
NextSearchable(types, i) ==
    IF i > Len(types) \/ types[i] \in Searchable THEN i ELSE NextSearchable(types, i + 1)

\* if (data.results) ... else if (Array.isArray(data)) ... else [data]
Found(d) ==
    IF HasResults(d) THEN d.obj.results.items
    ELSE IF d.isArray THEN d.items
    ELSE <<d.obj>>

\* The try branch after a sub-request succeeded with payload d.
\* (SearchSucceededUncounted: the variant that leaves totalCount alone,
\* against which SearchTotalIsSumOfSucceeded is tested)
SearchSucceededUncounted(loop, d) ==
    [loop EXCEPT !.results = MapSet(@, loop.types[loop.i], Found(d)),
                 !.i = NextSearchable(loop.types, loop.i + 1)]
SearchSucceeded(loop, d) ==
    [loop EXCEPT !.results = MapSet(@, loop.types[loop.i], Found(d)),
                 !.totalCount = @ + Len(Found(d)),
                 !.i = NextSearchable(loop.types, loop.i + 1)]

\* The catch branch of the loop: the failure is dropped and the loop goes on.
\* (SearchAbandoned: the variant in which a failure ends the loop, against
\* which SearchGlobalSurvivesFailures is tested)
SearchAbandoned(loop) ==
    [loop EXCEPT !.i = Len(loop.types) + 1]
SearchFailed(loop) ==
    [loop EXCEPT !.results = MapSet(@, loop.types[loop.i], <<>>),
                 !.i = NextSearchable(loop.types, loop.i + 1)]

SearchGlobalResult(a, loop) ==
    formatEnhancedResponse(loop.results, "search_global",
        <<AsGiven("query", a, "query"),
          Entry("search_types", ToString(loop.types), TRUE),
          LimitEntry(a, SearchGlobalDefaultLimit),
          Number("total_count", loop.totalCount)>>)

(***************************************************************************)
(* The inputs: the arguments a client may pass to a tool, the payloads the *)
(* Firewalla API may answer with, and the ways a request may fail.         *)
(***************************************************************************)
\* All sequences over S of length at most n
RECURSIVE SeqsUpTo(_, _)
SeqsUpTo(S, n) ==
    IF n = 0 THEN {<<>>}
    ELSE SeqsUpTo(S, n - 1) \cup {<<x>> \o s : x \in S, s \in {t \in SeqsUpTo(S, n - 1) : Len(t) = n - 1}}

\* "rules" is an entity type search_global has no endpoint for
TypeNames == {"devices", "alarms", "rules"}

ArgValues(t, k) ==
    CASE k = "limit" -> {0, 5}
      [] k = "types" -> SeqsUpTo(TypeNames, MaxTypes)
      [] k = "targets" -> {<<>>, <<"example.com">>, <<"10.0.0.1", "10.0.0.2">>}
      [] k = "target" -> {[type |-> "domain", value |-> "example.com"]}
      [] k = "scope" -> {[type |-> "device", value |-> "aa:bb:cc:dd:ee:ff"]}
      [] k = "schedule" -> {[duration |-> 3600]}
      [] k = "type" /\ t = "get_statistics" -> {"", "topBoxesByBlockedFlows", "topRegionsByBlockedFlows"}
      [] k = "type" /\ t = "get_trends" -> {"", "flows", "rules"}
      [] k = "query" /\ t = "search_global" -> {"status:active"}
      [] OTHER -> {"", "given"}

\* The argument objects over the keys S: every key is left out or given one
\* of its values.
RECURSIVE ArgsOver(_, _)
ArgsOver(t, S) ==
    IF S = {} THEN {EmptyObject}
    ELSE LET k == CHOOSE x \in S : TRUE
             rest == ArgsOver(t, S \ {k})
         IN rest \cup {(k :> v) @@ r : v \in ArgValues(t, k), r \in rest}

Arguments(t) == ArgsOver(t, Declared(t))

Lists(entities) == SeqsUpTo(entities, MaxResults)

\* { results: [...] } with and without next_cursor, a bare array, and
\* objects whose results are null or missing
ListPayloads(entities) ==
    {ObjData([results |-> Arr(l)]) : l \in Lists(entities)}
    \cup {ObjData([results |-> Arr(<<e>>), next_cursor |-> "cursor-2"]) : e \in entities}
    \cup {ArrData(l) : l \in {x \in Lists(entities) : Len(x) <= 1}}
    \cup {ObjData([results |-> NullArr]), ObjData(EmptyObject)}

Objects(entities) == {ObjData(e) : e \in entities}

Boxes == {[name |-> "Gold", model |-> "gold", version |-> "1.976", online |-> TRUE], EmptyObject}

\* { results: [{ name, model, online: true }], count: 1 }
OneOnlineBox ==
    ObjData([results |-> Arr(<<[name |-> "Office Firewalla", model |-> "Gold Plus",
                                online |-> TRUE]>>),
             count |-> 1])

Devices ==
    {[name |-> "Laptop", ip |-> "192.168.1.10", mac |-> "aa:bb:cc:dd:ee:ff", type |-> "desktop",
      online |-> TRUE, network |-> [name |-> "Home"], lastActiveTime |-> 1700000000],
     [name |-> "Printer", online |-> FALSE],
     EmptyObject}

Alarms ==
    {[alarmType |-> "Abnormal Upload", type |-> 1, ts |-> 1700000000, status |-> "active",
      device |-> [name |-> "Laptop", ip |-> "192.168.1.10"],
      remote |-> [domain |-> "example.com", country |-> "US"],
      transfer |-> [download |-> 2048, upload |-> 1024, total |-> 3072]],
     [type |-> 4, ts |-> 1700000100, severity |-> "LOW"],
     [ts |-> 1700000200, status |-> "resolved"]}

\* { results: [...] } with a long list of results, each of them `entity`
ManyOf(entity) == ObjData([results |-> Arr([i \in 1..ManyResults |-> entity])])

\* A long list of alarms that come without severity, of the types 0, 1, 2, ...
ManyAlarms == [i \in 1..ManyResults |-> [type |-> i - 1, ts |-> 1700000300]]

\* { results: [...] } with an archived alarm (the API's alarm status is
\* active or archived) next to an active one
ArchivedAlarms ==
    ObjData([results |-> Arr(<<[type |-> 1, ts |-> 1700000400, status |-> "archived"],
                               [type |-> 9, ts |-> 1700000500, status |-> "active"]>>)])

Rules ==
    {[name |-> <<"Block ads">>, action |-> "block", direction |-> "outbound", protocol |-> "tcp",
      target |-> [type |-> "domain", value |-> "ads.example.com"], status |-> "active"],
     [action |-> "block", direction |-> "outbound", protocol |-> "tcp",
      target |-> [type |-> "domain", value |-> "example.com"], status |-> "paused"],
     [action |-> "allow", target |-> [type |-> "category"]],
     [name |-> <<>>, action |-> "time_limit", schedule |-> [type |-> "daily"]],
     EmptyObject}

TargetLists ==
    {[name |-> "Ad servers", category |-> "ad", owner |-> "global", notes |-> "curated",
      targets |-> <<"ads.example.com", "track.example.com">>],
     [targets |-> <<"example.com">>],
     EmptyObject}

Flows ==
    {[ts |-> 1700000000, device |-> [id |-> "aa:bb:cc:dd:ee:ff", name |-> "Laptop"],
      direction |-> "out", domain |-> "example.com", country |-> "US", protocol |-> "tcp",
      upload |-> 1024, download |-> 4096],
     [ts |-> 1700000100, direction |-> "in", ip |-> "203.0.113.7", download |-> 512],
     EmptyObject}

Statistics ==
    {[name |-> "Gold", blockedFlows |-> 12, topBlockedDomain |-> "ads.example.com"],
     [region |-> "US", count |-> 3],
     EmptyObject}

SimpleStatistics == {[onlineBoxes |-> 2, offlineBoxes |-> 1, alarms |-> 7, rules |-> 12], EmptyObject}

Trends ==
    {[timestamp |-> 1700000000, total |-> 100, blocked |-> 10, allowed |-> 90,
      upload |-> 1024, download |-> 2048],
     [ts |-> 1700003600, total |-> 150, active |-> 5],
     EmptyObject}

\* The answers of the Firewalla API to the request of tool t
Payloads(t) ==
    CASE t = "list_boxes" -> ListPayloads(Boxes) \cup {OneOnlineBox}
      [] t \in {"list_devices", "search_devices"} ->
            ListPayloads(Devices) \cup {ManyOf(CHOOSE d \in Devices : Has(d, "mac"))}
      [] t \in {"list_alarms", "search_alarms"} ->
            ListPayloads(Alarms) \cup {ObjData([results |-> Arr(ManyAlarms)]), ArchivedAlarms}
      [] t = "get_alarm" -> Objects(Alarms)
      [] t = "list_rules" -> ListPayloads(Rules)
      [] t = "create_rule" -> Objects(Rules)
      [] t \in {"list_flows", "search_flows"} ->
            ListPayloads(Flows) \cup {ManyOf(CHOOSE f \in Flows : Has(f, "domain"))}
      [] t = "list_target_lists" -> ListPayloads(TargetLists)
      [] t \in {"get_target_list", "create_target_list"} -> Objects(TargetLists)
      [] t = "get_statistics" -> ListPayloads(Statistics)
      [] t = "get_simple_statistics" -> Objects(SimpleStatistics)
      [] t = "get_trends" -> ListPayloads(Trends)
      [] OTHER -> {ObjData(EmptyObject)}

\* The answers to a sub-request of search_global
SearchPayloads(entityType) ==
    LET entities == CASE entityType = "devices" -> Devices
                      [] entityType = "alarms" -> Alarms
                      [] entityType = "flows" -> Flows
                      [] OTHER -> Boxes
        e == CHOOSE x \in entities : x # EmptyObject
    IN {ObjData([results |-> Arr(<<>>)]), ObjData([results |-> Arr(<<e, EmptyObject>>)]),
        ArrData(<<e>>), ObjData(e)}

(***************************************************************************)
(* The server as a state machine: one tools/call at a time.                *)
(***************************************************************************)
NoOutcome == [kind |-> "none"]
NoLoop == [types |-> <<>>, i |-> 1, results |-> EmptyMap, totalCount |-> 0]

Succeeded(d) == [ok |-> TRUE, data |-> d]
Failed(f) == [ok |-> FALSE, failure |-> f]

\* Startup: the two environment variables the module reads when it loads.
\* A variable is unset (no key), set to the empty string, or set to a value.
EnvNames == {"FIREWALLA_MSP_API_KEY", "FIREWALLA_MSP_DOMAIN"}

Environments ==
    UNION {[S -> {"", "value"}] : S \in SUBSET EnvNames}

\* !process.env.X
Unset(e, x) == IF x \in DOMAIN e THEN e[x] = "" ELSE TRUE

Running == [exited |-> FALSE]

ExitedCleanly(status) == [exited |-> TRUE, status |-> 0]

\* process.exit(status)
Exited(status) == [exited |-> TRUE, status |-> status]

NoFn == [name |-> "none"]

NoCalls == <<>>

Init ==
    /\ pc = "loading"
    /\ env \in Environments
    /\ exit = Running
    /\ fn = NoFn
    /\ name = ""
    /\ args = EmptyObject
    /\ reqs = <<>>
    /\ resps = <<>>
    /\ sg = NoLoop
    /\ outcome = NoOutcome
    /\ calls = NoCalls
    /\ erred = FALSE

\* if (!API_KEY) { ...; process.exit(1); }  if (!MSP_DOMAIN) { ...; process.exit(1); }
ExitOnMissingEnvironment ==
    /\ pc = "loading"
    /\ ~(~Unset(env, "FIREWALLA_MSP_API_KEY") /\ ~Unset(env, "FIREWALLA_MSP_DOMAIN"))
    /\ pc' = "exited"
    /\ exit' = Exited(1)
    /\ UNCHANGED <<name, args, reqs, resps, sg, outcome, env, fn, calls, erred>>

\* Both variables are set: the module goes on to create the HTTP client and
\* the server and to register the handlers, and calls main().
LoadModule ==
    /\ pc = "loading"
    /\ ~Unset(env, "FIREWALLA_MSP_API_KEY") /\ ~Unset(env, "FIREWALLA_MSP_DOMAIN")
    /\ pc' = "loaded"
    /\ UNCHANGED <<name, args, reqs, resps, sg, outcome, env, exit, fn, calls, erred>>

\* main(): await server.connect(transport); from here on requests are served.
Connect ==
    /\ pc = "loaded"
    /\ pc' = "idle"
    /\ UNCHANGED <<name, args, reqs, resps, sg, outcome, env, exit, fn, calls, erred>>

\* A tools/call of a tool other than search_global reaches its await.
CallTool ==
    \E t \in ToolNames \ {"search_global"} : \E a \in Arguments(t) :
        /\ pc = "idle"
        /\ UNCHANGED <<env, exit, fn, calls, erred>>
        /\ name' = t
        /\ args' = a
        /\ reqs' = Issued(t, a)
        /\ pc' = "awaiting"
        /\ UNCHANGED <<resps, sg, outcome>>

\* A tools/call of a name that is no case of the switch.
CallUnknownTool ==
    /\ pc = "idle"
    /\ UNCHANGED <<env, exit, fn, calls, erred>>
    /\ name' = UnknownTool
    /\ args' = EmptyObject
    /\ outcome' = UnknownToolError(UnknownTool)
    /\ pc' = "returned"
    /\ UNCHANGED <<reqs, resps, sg>>

\* The state of search_global once loop has handled an entity type: the
\* next sub-request is awaited, or the loop is over and the tool returns.
SearchStep(a, loop, sent, got) ==
    /\ sg' = loop
    /\ resps' = got
    /\ IF loop.i <= Len(loop.types)
       THEN /\ reqs' = Append(sent, SearchRequest(loop.types[loop.i], a))
            /\ pc' = "searching"
            /\ outcome' = NoOutcome
       ELSE /\ reqs' = sent
            /\ pc' = "returned"
            /\ outcome' = Completed(SearchGlobalResult(a, loop))

\* const searchTypes = ...; const results: any = {}; let totalCount = 0;
\* and the loop is at the first entity type that has an endpoint
LoopBegun(a) ==
    [types |-> SearchTypes(a), i |-> NextSearchable(SearchTypes(a), 1),
     results |-> EmptyMap, totalCount |-> 0]

CallSearchGlobal ==
    \E a \in Arguments("search_global") :
        /\ pc = "idle"
        /\ UNCHANGED <<env, exit, fn, calls, erred>>
        /\ name' = "search_global"
        /\ args' = a
        /\ SearchStep(a, LoopBegun(a), <<>>, <<>>)

\* The awaited request succeeds: the case formats the payload and returns.
ToolResponse ==
    /\ pc = "awaiting"
    /\ UNCHANGED <<env, exit, fn, calls, erred>>
    /\ \E d \in Payloads(name) :
        /\ resps' = Append(resps, Succeeded(d))
        /\ outcome' = Completed(ToolResult(name, args, d))
        /\ pc' = "returned"
        /\ UNCHANGED <<name, args, reqs, sg>>

\* The awaited request fails: the catch block maps the axios error.
ToolFailure ==
    /\ pc = "awaiting"
    /\ UNCHANGED <<env, exit, fn, calls, erred>>
    /\ \E f \in ToolFailures :
        /\ resps' = Append(resps, Failed(f))
        /\ outcome' = MapAxiosError(f)
        /\ pc' = "returned"
        /\ UNCHANGED <<name, args, reqs, sg>>

SearchResponse ==
    /\ pc = "searching"
    /\ UNCHANGED <<env, exit, fn, calls, erred>>
    /\ \E d \in SearchPayloads(sg.types[sg.i]) :
        /\ SearchStep(args, SearchSucceeded(sg, d), reqs, Append(resps, Succeeded(d)))
        /\ UNCHANGED <<name, args>>

SearchFailure ==
    /\ pc = "searching"
    /\ UNCHANGED <<env, exit, fn, calls, erred>>
    /\ \E f \in SearchFailures :
        /\ SearchStep(args, SearchFailed(sg), reqs, Append(resps, Failed(f)))
        /\ UNCHANGED <<name, args>>

\* The response is written to the transport; the handler keeps nothing.
Respond ==
    /\ pc = "returned"
    /\ UNCHANGED <<env, exit, fn, calls, erred>>
    /\ pc' = "idle"
    /\ name' = ""
    /\ args' = EmptyObject
    /\ reqs' = <<>>
    /\ resps' = <<>>
    /\ sg' = NoLoop
    /\ outcome' = NoOutcome

Next ==
    \/ ExitOnMissingEnvironment
    \/ LoadModule
    \/ Connect
    \/ CallTool
    \/ CallUnknownTool
    \/ CallSearchGlobal
    \/ ToolResponse
    \/ ToolFailure
    \/ SearchResponse
    \/ SearchFailure
    \/ Respond

Spec == Init /\ [][Next]_vars

\* The module runs from its first statement to the call of main() without
\* waiting for anything, and main() awaits only server.connect: a startup
\* step that can be taken is taken.
SpecStartup ==
    /\ Spec
    /\ WF_vars(ExitOnMissingEnvironment)
    /\ WF_vars(LoadModule)
    /\ WF_vars(Connect)

(***************************************************************************)
(* The helper functions on their own: an input is drawn, and the function  *)
(* is applied to it.                                                       *)
(***************************************************************************)
\* Byte counts: the small ones, those around 1024 and 1024^2, and those
\* just below 1024^3
ByteCounts ==
    (0..Spread)
    \cup UNION {(Pow(K, e) - Spread)..(Pow(K, e) + Spread) : e \in 1..2}
    \cup ((Pow(K, 3) - Spread)..(Pow(K, 3) - 1))

Drawn(f, x) == [name |-> f, input |-> x, applied |-> FALSE]
Applied(f, x, y) == [name |-> f, input |-> x, applied |-> TRUE, output |-> y]

\* Strings over the reserved characters and the letters of an entity
Chars == {"&", "<", ">", "\"", "'", "l", "t", ";"}
Strings == SeqsUpTo(Chars, MaxChars)

\* JSON values: the scalars, the arrays of scalars, and the objects of one
\* entry whose value is a scalar or an array
JsonScalars ==
    {JsonNull, JsonString(<<"n", "u", "l", "l">>), JsonNumber(5), JsonString(<<"5">>),
     JsonBoolean(TRUE), JsonString(<<"<">>)}
JsonArrays == {JsonArray(items) : items \in SeqsUpTo(JsonScalars, MaxItems)}
JsonObjects ==
    {JsonObject(<<>>)}
    \cup {JsonObject(<<[key |-> <<"a">>, value |-> v]>>) : v \in JsonScalars \cup JsonArrays}
JsonValues == JsonScalars \cup JsonArrays \cup JsonObjects

FunctionInputs ==
    {Drawn(f, b) : f \in {"formatBytes", "FirewallaResponseFormatter.formatBytes"}, b \in ByteCounts}
    \cup {Drawn("escapeXML", str) : str \in Strings}
    \cup {Drawn("jsonToXML", v) : v \in JsonValues}

InitFunctions ==
    /\ pc = "function"
    /\ fn \in FunctionInputs
    /\ env = EmptyObject
    /\ exit = Running
    /\ name = ""
    /\ args = EmptyObject
    /\ reqs = <<>>
    /\ resps = <<>>
    /\ sg = NoLoop
    /\ outcome = NoOutcome
    /\ calls = NoCalls
    /\ erred = FALSE

\* The function f is yet to be applied to the input drawn for it
Pending(f) == pc = "function" /\ fn.name = f /\ ~fn.applied

ApplyFormatBytes ==
    /\ Pending("formatBytes")
    /\ fn' = Applied(fn.name, fn.input, formatBytes(fn.input))
    /\ UNCHANGED <<pc, name, args, reqs, resps, sg, outcome, env, exit, calls, erred>>

ApplyFormatBytesRich ==
    /\ Pending("FirewallaResponseFormatter.formatBytes")
    /\ fn' = Applied(fn.name, fn.input, formatBytesRich(fn.input))
    /\ UNCHANGED <<pc, name, args, reqs, resps, sg, outcome, env, exit, calls, erred>>

ApplyEscapeXML ==
    /\ Pending("escapeXML")
    /\ fn' = Applied(fn.name, fn.input, escapeXML(fn.input))
    /\ UNCHANGED <<pc, name, args, reqs, resps, sg, outcome, env, exit, calls, erred>>

ApplyJsonToXML ==
    /\ Pending("jsonToXML")
    /\ fn' = Applied(fn.name, fn.input, jsonToXML(fn.input))
    /\ UNCHANGED <<pc, name, args, reqs, resps, sg, outcome, env, exit, calls, erred>>

NextFunctions ==
    \/ ApplyFormatBytes
    \/ ApplyFormatBytesRich
    \/ ApplyEscapeXML
    \/ ApplyJsonToXML

SpecFunctions == InitFunctions /\ [][NextFunctions]_vars

(***************************************************************************)
(* Calls in flight at once.  The handler is an async function: while one   *)
(* call waits at an await, another may begin or go on.  What a call reads  *)
(* and writes are the parameters and the locals of its own invocation; the *)
(* module holds constants only (API_KEY, MSP_DOMAIN, httpClient, server).  *)
(* A call carries a mark, overlapped: whether another call was in flight   *)
(* while it was.                                                           *)
(***************************************************************************)
Slots == 1..MaxCalls

IdleCall ==
    [pc |-> "idle", name |-> "", args |-> EmptyObject, reqs |-> <<>>, resps |-> <<>>,
     sg |-> NoLoop, outcome |-> NoOutcome, overlapped |-> FALSE]

InFlight(c) == calls[c].pc # "idle"

\* The calls once `call` has begun in slot c
Begun(c, call) ==
    [d \in Slots |->
        IF d = c
        THEN [call EXCEPT !.overlapped = \E e \in Slots \ {c} : InFlight(e)]
        ELSE IF InFlight(d) THEN [calls[d] EXCEPT !.overlapped = TRUE]
        ELSE calls[d]]

\* The calls made at once: a tool of one request, with its required
\* arguments, and search_global over two entity types
ConcurrentArguments(t) ==
    IF t = "search_global"
    THEN {a \in Arguments(t) : DOMAIN a = {"query", "types"} /\ a.types = <<"devices", "alarms">>}
    ELSE {a \in Arguments(t) : DOMAIN a = Required(t)}

\* The answers and the failures that calls made at once meet: fewer than
\* those a single call meets, a failure with and without a response among them
ConcurrentFailures == {f \in ToolFailures : f.status \in {404, 500}}
ConcurrentSearchFailures == {f \in SearchFailures : f.status = NoStatus}
ConcurrentSearchPayloads(entityType) == {d \in SearchPayloads(entityType) : ~d.isArray}

\* (LoopOfAllCalls: the variant in which totalCount is one variable of the
\* module, which every call in flight adds to)
LoopOfAllCalls(c) ==
    [calls[c].sg EXCEPT !.totalCount = Sum([d \in Slots |-> calls[d].sg.totalCount])]

\* The locals of case "search_global" are those of the call's own invocation
LoopOf(c) == calls[c].sg

\* (ServerExitsOnError: the variant in which an error that a call is
\* answered with ends the process)
ServerExitsOnError(settled) ==
    IF settled.kind = "result" THEN Running ELSE Exited(1)

\* The handler's promise settles and the SDK writes the response, a result
\* or an error: the process goes on serving
ServerAfter(settled) == Running

InitCalls ==
    /\ pc = "idle"
    /\ env = [x \in EnvNames |-> "value"]
    /\ exit = Running
    /\ fn = NoFn
    /\ name = ""
    /\ args = EmptyObject
    /\ reqs = <<>>
    /\ resps = <<>>
    /\ sg = NoLoop
    /\ outcome = NoOutcome
    /\ calls = [c \in Slots |-> IdleCall]
    /\ erred = FALSE

\* A tools/call of get_alarm reaches its await.
BeginTool ==
    \E c \in Slots : \E a \in ConcurrentArguments("get_alarm") :
        /\ exit = Running
        /\ ~InFlight(c)
        /\ calls' = Begun(c, [IdleCall EXCEPT !.pc = "awaiting", !.name = "get_alarm",
                                              !.args = a, !.reqs = Issued("get_alarm", a)])
        /\ UNCHANGED <<pc, name, args, reqs, resps, sg, outcome, env, exit, fn, erred>>

\* A tools/call of a name that is no case of the switch.
BeginUnknownTool ==
    \E c \in Slots :
        /\ exit = Running
        /\ ~InFlight(c)
        /\ calls' = Begun(c, [IdleCall EXCEPT !.pc = "returned", !.name = UnknownTool,
                                              !.outcome = UnknownToolError(UnknownTool)])
        /\ UNCHANGED <<pc, name, args, reqs, resps, sg, outcome, env, exit, fn, erred>>

\* The state of a search_global call once loop has handled an entity type
SearchStepped(call, loop, got) ==
    IF loop.i <= Len(loop.types)
    THEN [call EXCEPT !.sg = loop, !.resps = got, !.pc = "searching",
                      !.reqs = Append(@, SearchRequest(loop.types[loop.i], call.args))]
    ELSE [call EXCEPT !.sg = loop, !.resps = got, !.pc = "returned",
                      !.outcome = Completed(SearchGlobalResult(call.args, loop))]

BeginSearchGlobal ==
    \E c \in Slots : \E a \in ConcurrentArguments("search_global") :
        /\ exit = Running
        /\ ~InFlight(c)
        /\ calls' = Begun(c, SearchStepped([IdleCall EXCEPT !.name = "search_global", !.args = a],
                                           LoopBegun(a), <<>>))
        /\ UNCHANGED <<pc, name, args, reqs, resps, sg, outcome, env, exit, fn, erred>>

\* The request a call awaits succeeds.
ResponseArrives ==
    \E c \in Slots :
        /\ exit = Running
        /\ calls[c].pc = "awaiting"
        /\ \E d \in Payloads(calls[c].name) :
            calls' = [calls EXCEPT ![c].resps = Append(@, Succeeded(d)),
                                   ![c].outcome = Completed(ToolResult(calls[c].name,
                                                                       calls[c].args, d)),
                                   ![c].pc = "returned"]
        /\ UNCHANGED <<pc, name, args, reqs, resps, sg, outcome, env, exit, fn, erred>>

\* The request a call awaits fails.
RequestFails ==
    \E c \in Slots :
        /\ exit = Running
        /\ calls[c].pc = "awaiting"
        /\ \E f \in ConcurrentFailures :
            calls' = [calls EXCEPT ![c].resps = Append(@, Failed(f)),
                                   ![c].outcome = MapAxiosError(f),
                                   ![c].pc = "returned"]
        /\ UNCHANGED <<pc, name, args, reqs, resps, sg, outcome, env, exit, fn, erred>>

\* The sub-request a search_global call awaits succeeds.
SearchResponseArrives ==
    \E c \in Slots :
        /\ exit = Running
        /\ calls[c].pc = "searching"
        /\ \E d \in ConcurrentSearchPayloads(calls[c].sg.types[calls[c].sg.i]) :
            calls' = [calls EXCEPT ![c] = SearchStepped(@, SearchSucceeded(LoopOf(c), d),
                                                        Append(@.resps, Succeeded(d)))]
        /\ UNCHANGED <<pc, name, args, reqs, resps, sg, outcome, env, exit, fn, erred>>

\* The sub-request a search_global call awaits fails.
SearchRequestFails ==
    \E c \in Slots :
        /\ exit = Running
        /\ calls[c].pc = "searching"
        /\ \E f \in ConcurrentSearchFailures :
            calls' = [calls EXCEPT ![c] = SearchStepped(@, SearchFailed(LoopOf(c)),
                                                        Append(@.resps, Failed(f)))]
        /\ UNCHANGED <<pc, name, args, reqs, resps, sg, outcome, env, exit, fn, erred>>

\* The response of a call is written to the transport, a result or an
\* error; the handler keeps nothing.
AnswerCall ==
    \E c \in Slots :
        /\ exit = Running
        /\ calls[c].pc = "returned"
        /\ calls' = [calls EXCEPT ![c] = IdleCall]
        /\ erred' = (erred \/ calls[c].outcome.kind # "result")
        /\ exit' = ServerAfter(calls[c].outcome)
        /\ UNCHANGED <<pc, name, args, reqs, resps, sg, outcome, env, fn>>

NextCalls ==
    \/ BeginTool
    \/ BeginUnknownTool
    \/ BeginSearchGlobal
    \/ ResponseArrives
    \/ RequestFails
    \/ SearchResponseArrives
    \/ SearchRequestFails
    \/ AnswerCall

SpecCalls == InitCalls /\ [][NextCalls]_vars

\* text contains the piece p
Contains(text, p) == \E i \in 1..Len(text) : text[i] = p

\* text states `label` followed by the piece p
States(text, label, p) ==
    \E i \in 1..(Len(text) - 1) : text[i] = label /\ text[i + 1] = p

(***************************************************************************)
(* Properties.                                                             *)
(***************************************************************************)
Last(q) == q[Len(q)]

SingleRequestTools == ToolNames \ {"search_global"}

\* The call in hand ended with its one upstream request failing / succeeding
RequestFailed == pc = "returned" /\ name \in SingleRequestTools /\ resps # <<>> /\ ~Last(resps).ok
RequestSucceeded == pc = "returned" /\ name \in SingleRequestTools /\ resps # <<>> /\ Last(resps).ok

SearchGlobalReturned == pc = "returned" /\ name = "search_global"

\* C1: a call that leaves out a required argument (get_alarm or delete_alarm
\* without gid or aid, and likewise every tool with required arguments) is
\* answered with an invalid-request or invalid-params error, and no outbound
\* HTTP request is issued for it.
MissingRequiredArgumentRejected ==
    (name \in ToolNames /\ ~(Required(name) \subseteq DOMAIN args))
        => /\ reqs = <<>>
           /\ pc = "returned" =>
                (outcome.kind = "error" /\ outcome.code \in {"InvalidRequest", "InvalidParams"})

\* C2: when the upstream request of a tool other than search_global fails,
\* status 401, 404 and 400 give an invalid-request error (the one for 400
\* carrying the upstream message), and every other status and a failure
\* without response give an internal error carrying the upstream message.
UpstreamFailureMapped ==
    RequestFailed =>
        LET f == Last(resps).failure
            upstream == IF f.upstream # "" THEN f.upstream ELSE f.message
        IN /\ outcome.kind = "error"
           /\ IF f.status \in {401, 404, 400}
              THEN /\ outcome.code = "InvalidRequest"
                   /\ f.status = 400 => Contains(outcome.message, upstream)
              ELSE /\ outcome.code = "InternalError"
                   /\ Contains(outcome.message, upstream)

UpstreamFailureMappedWitness ==
    /\ RequestFailed
    /\ Last(resps).failure.status = 400
    /\ Last(resps).failure.upstream # ""
    /\ outcome.kind = "error"
    /\ outcome.code = "InvalidRequest"

\* The searchable entity types of the call, in the order they are searched
SearchedTypes == Filter(SearchTypes(args), LAMBDA type : type \in Searchable)

FailedTypeMarked ==
    (SearchGlobalReturned /\ outcome.kind = "result") =>
        \A i \in 1..Len(resps) :
            (~resps[i].ok /\ \A j \in (i + 1)..Len(resps) : reqs[j].path # reqs[i].path)
                => outcome.doc.data.at[reqs[i].path[1]] # <<>>

\* The number of results a successful sub-request brought: the length of
\* results, of the bare array, or 1 for a single object
ResultCount(d) ==
    IF ~d.isArray /\ Has(d.obj, "results") /\ ~d.obj.results.isNull
    THEN Len(d.obj.results.items)
    ELSE IF d.isArray THEN Len(d.items) ELSE 1

\* C5: the total count search_global reports equals the sum, over the
\* sub-requests that succeeded, of their result counts; failed sub-requests
\* add nothing.
SearchTotalIsSumOfSucceeded ==
    (SearchGlobalReturned /\ outcome.kind = "result") =>
        MdStr(outcome.doc.metadata, "total_count")
            = ToString(Sum([i \in 1..Len(resps) |->
                             IF resps[i].ok THEN ResultCount(resps[i].data) ELSE 0]))

SearchTotalIsSumOfSucceededWitness ==
    /\ SearchGlobalReturned
    /\ outcome.kind = "result"
    /\ \E i, j \in 1..Len(resps) :
            /\ ~resps[i].ok
            /\ resps[j].ok /\ ResultCount(resps[j].data) = 2
    /\ MdStr(outcome.doc.metadata, "total_count") # "0"

AlwaysSent(t) ==
    IF t \in {"search_global", "search_devices", "search_alarms", "search_flows"}
    THEN {"limit"} ELSE {}
NeverSent(t) == IF t = "search_global" THEN {"types"} ELSE {}

\* if (args.k): written out for the kinds of argument values
Given(a, k) ==
    /\ k \in DOMAIN a
    /\ IF k = "limit" THEN a[k] # 0
       ELSE IF k \in {"targets", "types", "target", "scope", "schedule"} THEN TRUE
       ELSE a[k] # ""

\* C7 (as stated): every optional argument is in the parameters of the
\* request exactly when the call supplied it, each independently of the
\* others, and is left out when it was not supplied.
OptionalArgumentsSentWhenSupplied ==
    name \in ToolNames =>
        \A i \in 1..Len(reqs) : \A k \in Optional(name) :
            /\ (k \in DOMAIN reqs[i].params) = (k \in DOMAIN args)
            /\ k \in DOMAIN args => reqs[i].params[k] = args[k]

\* C7 (amended): every optional argument is in the parameters of the request
\* exactly when the call supplied it with a truthy value (not "" and not 0),
\* each independently of the others, and is left out otherwise; except that
\* the search tools always send limit (50, or 10 for search_global, when it
\* is absent or 0) and that types of search_global is never sent.
OptionalArgumentsSentWhenTruthy ==
    name \in ToolNames =>
        \A i \in 1..Len(reqs) : \A k \in Optional(name) :
            IF k \in NeverSent(name) THEN k \notin DOMAIN reqs[i].params
            ELSE IF k \in AlwaysSent(name)
            THEN reqs[i].params[k] =
                    IF Given(args, k) THEN args[k]
                    ELSE IF name = "search_global" THEN 10 ELSE 50
            ELSE /\ (k \in DOMAIN reqs[i].params) = Given(args, k)
                 /\ Given(args, k) => reqs[i].params[k] = args[k]

OptionalArgumentsSentWhenTruthyWitness ==
    /\ pc = "awaiting"
    /\ name = "update_rule"
    /\ "name" \in DOMAIN args /\ args.name = ""
    /\ "action" \in DOMAIN args /\ args.action # ""
    /\ "status" \notin DOMAIN args
    /\ DOMAIN reqs[1].params = {"action"}

\* The tools whose answer is a Markdown report over a list of results, and
\* the line of the report that states how many there are
ListRenderers ==
    {"list_devices", "search_devices", "list_alarms", "search_alarms", "list_rules",
     "list_flows", "list_target_lists", "get_statistics", "get_trends"}

CountLabel(t) ==
    CASE t \in {"list_devices", "search_devices"} -> "- **Total Devices**: "
      [] t \in {"list_alarms", "search_alarms"} -> "- **Total Alarms**: "
      [] t = "list_rules" -> "- **Total Rules**: "
      [] t = "list_flows" -> "- **Total Flows**: "
      [] t = "list_target_lists" -> "- **Total Lists**: "
      [] t = "get_statistics" -> "Showing top "
      [] t = "get_trends" -> "- **Data Points**: "

\* The text of an enhanced response: title, Markdown report and summary
Report(doc) == doc.title \o doc.presentation \o doc.summary

\* The payload is an object whose results are absent or null
ResultsMissing(d) ==
    ~d.isArray /\ ("results" \notin DOMAIN d.obj \/ d.obj.results.isNull)

\* C8: every Markdown renderer, given a payload whose results are absent or
\* null, does not throw, reports a count of 0, and produces a response that
\* contains neither "undefined" nor "null".
MissingResultsRenderedAsEmpty ==
    (RequestSucceeded /\ name \in ListRenderers /\ ResultsMissing(Last(resps).data)) =>
        /\ outcome.kind = "result"
        /\ States(Report(outcome.doc), CountLabel(name), "0")
        /\ ~Contains(Report(outcome.doc), "undefined")
        /\ ~Contains(Report(outcome.doc), "null")

\* C9: the rendered Markdown never contains "undefined" or "null", whatever
\* optional fields the listed entities lack (an alarm without type and
\* alarmType, a rule whose target has no value, a target list without name).
MissingFieldsNeverLeak ==
    (RequestSucceeded /\ name \in ListRenderers /\ ~ResultsMissing(Last(resps).data)
        /\ outcome.kind = "result") =>
        /\ ~Contains(outcome.doc.presentation, "undefined")
        /\ ~Contains(outcome.doc.presentation, "null")

\* The rules of the upstream payload of list_rules
UpstreamRules(d) ==
    IF d.isArray THEN d.items
    ELSE IF ResultsMissing(d) THEN <<>> ELSE d.obj.results.items

\* The name list_rules is to show for an upstream rule
ExpectedName(rule) ==
    IF "name" \in DOMAIN rule /\ rule.name # <<>> THEN rule.name
    ELSE <<IF TruthyS(rule, "action") THEN rule.action ELSE "unknown", " ",
           IF TruthyS(rule, "direction") THEN rule.direction ELSE "", " ",
           IF TruthyS(rule, "protocol") THEN rule.protocol ELSE "any", " ",
           IF "target" \in DOMAIN rule /\ TruthyS(rule.target, "value")
           THEN rule.target.value ELSE "any">>

\* C10: after list_rules every rendered rule has a non-empty name: a rule
\* that came without a name gets one built from its action, direction,
\* protocol and target value (with their defaults), the same for the same
\* rule, and a rule that came with a name keeps it.
RulesAreNamed ==
    (RequestSucceeded /\ name = "list_rules" /\ outcome.kind = "result") =>
        LET sent == UpstreamRules(Last(resps).data)
            named == ResultsOrEmpty(outcome.doc.data)
            report == outcome.doc.presentation
        IN /\ Len(named) = Len(sent)
           /\ \A i \in 1..Len(named) :
                /\ named[i].name = ExpectedName(sent[i])
                /\ named[i].name # <<>> /\ named[i].name[1] # ""
                /\ ("action" \in DOMAIN named[i]
                        /\ named[i].action \in {"block", "allow", "time_limit"})
                    => States(report, "| **", named[i].name[1])
           /\ ~Contains(report, "Unnamed Rule")
           /\ ~States(report, "| **", "** | ")

RulesAreNamedWitness ==
    /\ RequestSucceeded
    /\ name = "list_rules"
    /\ outcome.kind = "result"
    /\ \E i, j \in 1..Len(UpstreamRules(Last(resps).data)) :
            LET sent == UpstreamRules(Last(resps).data)
            IN /\ "name" \notin DOMAIN sent[i]
               /\ "action" \in DOMAIN sent[i] /\ sent[i].action = "block"
               /\ "name" \in DOMAIN sent[j] /\ sent[j].name # <<>>
               /\ ResultsOrEmpty(outcome.doc.data)[i].name[1] = "block"

\* The pieces that follow `label` in text, in the order of the text
After(text, label) ==
    LET at == SelectSeq([i \in 1..(Len(text) - 1) |-> i], LAMBDA i : text[i] = label)
    IN [j \in 1..Len(at) |-> text[at[j] + 1]]

AlarmReported ==
    /\ RequestSucceeded
    /\ name \in {"list_alarms", "search_alarms"}
    /\ outcome.kind = "result"
    /\ ~ResultsMissing(Last(resps).data)
    /\ ~Last(resps).data.isArray
    /\ Last(resps).data.obj.results.items # <<>>

\* The severity class the alarms report is to give an alarm
SeverityClass(alarm) ==
    IF "severity" \in DOMAIN alarm /\ alarm.severity # "" THEN alarm.severity
    ELSE IF "type" \notin DOMAIN alarm THEN "LOW"
    ELSE IF alarm.type \in 0..2 THEN "HIGH"
    ELSE IF alarm.type \in 3..5 THEN "MEDIUM"
    ELSE "LOW"

\* C11: in the alarms report an alarm that comes without severity is HIGH
\* when its numeric type is at most 2, MEDIUM when it is at most 5 and LOW
\* otherwise (so types 9 and 10 are LOW), and the numbers of the severity
\* breakdown are the numbers of alarms in each class.
SeverityDerivedFromType ==
    AlarmReported =>
        LET alarms == Last(resps).data.obj.results.items
            report == outcome.doc.presentation
            InClass(class) == Cardinality({i \in 1..Len(alarms) : SeverityClass(alarms[i]) = class})
        IN /\ After(report, "- **Severity**: ")
                = [i \in 1..Len(alarms) |-> SeverityClass(alarms[i])]
           /\ After(report, "High") = <<ToString(InClass("HIGH"))>>
           /\ After(report, "Medium") = <<ToString(InClass("MEDIUM"))>>
           /\ After(report, "Low") = <<ToString(InClass("LOW"))>>

SeverityDerivedFromTypeWitness ==
    /\ AlarmReported
    /\ Last(resps).data.obj.results.items = ManyAlarms
    /\ States(outcome.doc.presentation, "High", "3")
    /\ States(outcome.doc.presentation, "Medium", "3")
    /\ States(outcome.doc.presentation, "Low", ToString(ManyResults - 6))
    /\ After(outcome.doc.presentation, "- **Severity**: ")[10] = "LOW"

\* The result of applying the helper function f is in hand
Returned(f) == pc = "function" /\ fn.name = f /\ fn.applied

\* C12: for every non-negative integer number of bytes b, formatBytes prints
\* the unit B exactly when b < 1024, and for b >= 1024 the number it prints
\* (rounded to two decimals) is at least 1 and less than 1024.
BytesScaledBelowK ==
    (Returned("formatBytes") \/ Returned("FirewallaResponseFormatter.formatBytes")) =>
        LET b == fn.input
            printed == fn.output
        IN /\ (Last(printed) \in {"B", "0B", "0 B"}) = (b < K)
           /\ b >= K => printed[1] \in {ToString(whole) : whole \in 1..(K - 1)}

\* The five entities of XML and the characters they stand for
Entities ==
    {[char |-> "&", text |-> <<"&", "a", "m", "p", ";">>],
     [char |-> "<", text |-> <<"&", "l", "t", ";">>],
     [char |-> ">", text |-> <<"&", "g", "t", ";">>],
     [char |-> "\"", text |-> <<"&", "q", "u", "o", "t", ";">>],
     [char |-> "'", text |-> <<"&", "#", "3", "9", ";">>]}

\* The entity that text has at position i, if any
EntityAt(text, i) ==
    {e \in Entities : /\ i + Len(e.text) - 1 <= Len(text)
                      /\ SubSeq(text, i, i + Len(e.text) - 1) = e.text}

\* Decoding by the entity rules of XML, left to right
RECURSIVE Decode(_)
Decode(text) ==
    IF text = <<>> THEN <<>>
    ELSE IF EntityAt(text, 1) # {}
    THEN LET e == CHOOSE x \in EntityAt(text, 1) : TRUE
         IN <<e.char>> \o Decode(SubSeq(text, Len(e.text) + 1, Len(text)))
    ELSE <<Head(text)>> \o Decode(Tail(text))

\* Every character of str on its own: a reserved one as its entity
EscapedOnce(str) ==
    Concat([i \in 1..Len(str) |->
                IF \E e \in Entities : e.char = str[i]
                THEN (CHOOSE e \in Entities : e.char = str[i]).text
                ELSE <<str[i]>>])

\* C13: for every string s, escapeXML(s) has no raw <, >, " or ' and no &
\* that does not start one of the five entities; every reserved character
\* of s is escaped exactly once; and decoding escapeXML(s) gives back s.
EscapeXMLRoundTrip ==
    Returned("escapeXML") =>
        LET s == fn.input
            escaped == fn.output
        IN /\ \A i \in 1..Len(escaped) :
                /\ escaped[i] \notin {"<", ">", "\"", "'"}
                /\ escaped[i] = "&" => EntityAt(escaped, i) # {}
           /\ escaped = EscapedOnce(s)
           /\ Decode(escaped) = s

EscapeXMLRoundTripWitness ==
    /\ Returned("escapeXML")
    /\ fn.input = <<"&", "l", "t", ";">>
    /\ fn.output = <<"&", "a", "m", "p", ";", "l", "t", ";">>

\* C14: the XML that jsonToXML writes for a JSON value v determines v: no
\* other JSON value is written as the same XML, so that parsing the XML
\* recovers the shape and the scalar values of v.
XMLDeterminesValue ==
    Returned("jsonToXML") =>
        \A w \in JsonValues : jsonToXML(w) = fn.output => w = fn.input

\* The tools whose case hands the payload to formatEnhancedResponse, and the
\* response types that have a renderer
EnhancedTools ==
    {"list_devices", "list_alarms", "list_rules", "list_flows", "list_target_lists",
     "get_target_list", "create_target_list", "get_statistics", "get_simple_statistics",
     "get_trends", "search_devices", "search_alarms", "search_global"}

Registered ==
    {"list_alarms", "search_alarms", "list_devices", "search_devices", "list_rules",
     "get_statistics", "get_simple_statistics", "list_flows", "search_flows",
     "list_target_lists", "get_target_list", "get_trends", "search_global"}

\* C15: formatEnhancedResponse is total: whatever payload a tool passes to
\* it, it raises no exception and returns the four-part envelope (metadata,
\* presentation, summary, data) when the response type has a renderer and
\* the baseline envelope (metadata and data only) when it has none.
FormatterIsTotal ==
    (name \in EnhancedTools /\ (RequestSucceeded \/ SearchGlobalReturned)) =>
        /\ outcome.kind = "result"
        /\ IF outcome.doc.response_type \in Registered
           THEN /\ outcome.doc.form = "enhanced"
                /\ {"metadata", "presentation", "summary", "data"} \subseteq DOMAIN outcome.doc
           ELSE /\ outcome.doc.form = "baseline"
                /\ "presentation" \notin DOMAIN outcome.doc

\* C16: list_boxes on the upstream payload { results: [{ name, model,
\* online: true }], count: 1 } returns a formatted result whose summary
\* mentions exactly 1 box and shows the online status as "Online".
OneOnlineBoxSummarised ==
    (RequestSucceeded /\ name = "list_boxes" /\ Last(resps).data = OneOnlineBox) =>
        /\ outcome.kind = "result"
        /\ "summary" \in DOMAIN outcome.doc
        /\ Contains(outcome.doc.summary, "1")
        /\ \E i \in 1..Len(outcome.doc.summary) :
                outcome.doc.summary[i] \in {"Online", " online", "online"}

\* create_target_list was called with a name, two targets and no owner, and
\* the upstream answered with a target list of two targets
CreatedWithTwoTargetsNoOwner ==
    /\ RequestSucceeded
    /\ name = "create_target_list"
    /\ "name" \in DOMAIN args /\ args.name # ""
    /\ "targets" \in DOMAIN args /\ Len(args.targets) = 2
    /\ "owner" \notin DOMAIN args
    /\ "targets" \in DOMAIN Last(resps).data.obj
    /\ Len(Last(resps).data.obj.targets) = 2

\* C17: create_target_list called with two targets and no owner returns a
\* rendering in which the target count is exactly 2 and the owner is shown
\* as the placeholder "System", not as null or undefined.
CreatedListShowsPlaceholderOwner ==
    CreatedWithTwoTargetsNoOwner =>
        /\ outcome.kind = "result"
        /\ MdStr(outcome.doc.metadata, "target_count") = "2"
        /\ MdStr(outcome.doc.metadata, "owner") \notin {"null", "undefined"}
        /\ ~Contains(Report(outcome.doc), "null")
        /\ ~Contains(Report(outcome.doc), "undefined")

\* A renderer of devices, flows or alarms was given more than ten results
LongListReported ==
    /\ RequestSucceeded
    /\ name \in {"list_devices", "search_devices", "list_flows", "list_alarms", "search_alarms"}
    /\ outcome.kind = "result"
    /\ ~ResultsMissing(Last(resps).data)
    /\ ~Last(resps).data.isArray
    /\ Len(Last(resps).data.obj.results.items) > 10

\* C18: each renderer of devices, flows and alarms renders at most the first
\* 10 detail entries, and for a list of n > 10 entries adds the trailer
\* "...and (n - 10) more".
LongListsTruncated ==
    LongListReported =>
        LET n == Len(Last(resps).data.obj.results.items)
            report == outcome.doc.presentation
        IN /\ States(report, "...and ", ToString(n - 10))
           /\ name \in {"list_alarms", "search_alarms"}
                => Len(After(report, "### Alarm #")) = 10

\* The upstream payload carries a non-empty continuation cursor
HasCursor(d) == ~d.isArray /\ "next_cursor" \in DOMAIN d.obj /\ d.obj.next_cursor # ""

\* C19: every renderer writes a pagination hint that carries the cursor
\* whenever the upstream payload it renders has a non-empty next_cursor, and
\* writes none when the payload has no next_cursor.
PaginationHintFollowsCursor ==
    (RequestSucceeded /\ name \in ListRenderers /\ outcome.kind = "result") =>
        LET d == Last(resps).data
            report == outcome.doc.presentation
            hint == "More results are available. Use cursor: "
        IN IF HasCursor(d) THEN States(report, hint, d.obj.next_cursor)
           ELSE ~Contains(report, hint)

\* One of the two variables is not in the environment
VariableMissing == \E x \in {"FIREWALLA_MSP_API_KEY", "FIREWALLA_MSP_DOMAIN"} : x \notin DOMAIN env

\* Both variables are in the environment, with a value
VariablesPresent ==
    \A x \in {"FIREWALLA_MSP_API_KEY", "FIREWALLA_MSP_DOMAIN"} :
        IF x \in DOMAIN env THEN env[x] # "" ELSE FALSE

\* No request has been taken up: the transport is not connected
NothingServed ==
    /\ pc \in {"loading", "exited"}
    /\ name = "" /\ reqs = <<>> /\ resps = <<>> /\ outcome = NoOutcome

UnknownToolRejected ==
    (pc \in {"awaiting", "searching", "returned"} /\ name \notin ToolNames) =>
        /\ pc = "returned"
        /\ reqs = <<>> /\ resps = <<>>
        /\ outcome.kind = "error"
        /\ outcome.code = "MethodNotFound"
        /\ outcome.message[1] = "Unknown tool: "
        /\ Contains(outcome.message, name)

UnknownToolRejectedWitness ==
    /\ pc = "returned"
    /\ name = UnknownTool
    /\ name \notin ToolNames
    /\ outcome.kind = "error"
    /\ outcome.code = "MethodNotFound"
    /\ reqs = <<>>

\* The GET that search_global is to issue for an entry of the types list
ExpectedSearch(type) ==
    [verb |-> "GET", path |-> <<type>>,
     params |-> [k \in {"limit"} \cup {x \in {"query", "cursor"} : Given(args, x)} |->
                    IF k = "limit" THEN (IF Given(args, "limit") THEN args.limit ELSE 10)
                    ELSE args[k]]]

\* C24: search_global issues exactly one GET for every requested entry of
\* the types list that is one of devices, alarms, flows and boxes, in the
\* order of the list (the four types in that order when types is not given),
\* each with the same query, the same limit and, if given, the same cursor;
\* a sub-request is issued only after the previous one has completed, and
\* the call returns once the last one has completed.
SearchGlobalRequestsInOrder ==
    (name = "search_global" /\ pc \in {"searching", "returned"}) =>
        LET wanted == [i \in 1..Len(SearchedTypes) |-> ExpectedSearch(SearchedTypes[i])]
        IN /\ Len(reqs) <= Len(wanted)
           /\ reqs = SubSeq(wanted, 1, Len(reqs))
           /\ pc = "searching" => Len(resps) = Len(reqs) - 1
           /\ pc = "returned" => (Len(resps) = Len(reqs) /\ Len(reqs) = Len(wanted))
           /\ "types" \notin DOMAIN args
                => SearchedTypes = <<"devices", "alarms", "flows", "boxes">>

SearchGlobalRequestsInOrderWitness ==
    /\ SearchGlobalReturned
    /\ "types" \in DOMAIN args /\ args.types = <<"alarms", "devices">>
    /\ "cursor" \in DOMAIN args /\ args.cursor # ""
    /\ Len(reqs) = 2
    /\ reqs[1].path = <<"alarms">> /\ reqs[2].path = <<"devices">>
    /\ reqs[1].params = reqs[2].params
    /\ "cursor" \in DOMAIN reqs[2].params

\* The entries of the types list of the call that name no searchable type
Unsearchable ==
    {SearchTypes(args)[i] : i \in 1..Len(SearchTypes(args))}
        \ {"devices", "alarms", "flows", "boxes"}

ItemsHeld(doc) ==
    Sum([i \in 1..Len(doc.data.keys) |-> Len(doc.data.at[doc.data.keys[i]])])

\* C26: the total_count that search_global puts in the metadata equals the
\* number of items held in the result map it returns, which is the total
\* that the summary and the Markdown report state, for every types list
\* (one that names a type twice included) and every mix of succeeding and
\* failing sub-requests.
TotalCountMatchesResultMap ==
    (SearchGlobalReturned /\ outcome.kind = "result") =>
        LET doc == outcome.doc
            held == ToString(ItemsHeld(doc))
        IN /\ MdStr(doc.metadata, "total_count") = held
           /\ States(doc.summary, "Found ", held)
           /\ States(doc.presentation, "- **Total Results**: ", held)

\* The numbers the report states after the labels add up to n
AddUp(report, labels, n) ==
    \E count \in [1..Len(labels) -> 0..n] :
        /\ \A i \in 1..Len(labels) : States(report, labels[i], ToString(count[i]))
        /\ Sum(count) = n

\* C27: in the alarms report of n alarms the three severity counts add up to
\* n, and so do the three status counts (Active, Acknowledged, Resolved),
\* whether an alarm's status is active, resolved or archived and whether its
\* severity is given or derived from its type.
AlarmCountsAddUp ==
    AlarmReported =>
        LET n == Len(Last(resps).data.obj.results.items)
            report == outcome.doc.presentation
        IN /\ AddUp(report, <<"High", "Medium", "Low">>, n)
           /\ AddUp(report, <<"Active", "Acknowledged", "Resolved">>, n)

\* The severity counts alone do add up
SeverityCountsAddUp ==
    AlarmReported =>
        AddUp(outcome.doc.presentation, <<"High", "Medium", "Low">>,
              Len(Last(resps).data.obj.results.items))

\* text holds the pieces of part, one after the other
Within(text, part) ==
    \E i \in 1..(Len(text) - Len(part) + 1) : SubSeq(text, i, i + Len(part) - 1) = part

\* The severity the alarms report of list_alarms and search_alarms shows for alarm
ListedSeverity(alarm) ==
    After(formatListAlarms(ObjData([results |-> Arr(<<alarm>>)]), <<>>), "- **Severity**: ")[1]

\* C28: the report of search_global shows an alarm with the severity that the
\* alarms report of list_alarms and search_alarms shows for the same alarm,
\* also when the alarm comes without severity and the severity is derived.
SameSeverityInBothReports ==
    (SearchGlobalReturned /\ outcome.kind = "result"
        /\ "alarms" \in DOMAIN outcome.doc.data.at) =>
        \A i \in 1..Len(outcome.doc.data.at.alarms) :
            LET alarm == outcome.doc.data.at.alarms[i]
                row == SearchAlarmRow(alarm)
            IN Within(outcome.doc.presentation,
                      SubSeq(row, 1, Len(row) - 1) \o <<ListedSeverity(alarm)>>)

SearchTools == {"search_devices", "search_alarms", "search_flows"}

\* C29: search_devices, search_alarms and search_flows return the same kind
\* of envelope: the result of each of them is the enhanced envelope, with the
\* presentation block and the summary of the renderer that
\* formatEnhancedResponse registers for the tool.
SearchToolsSameEnvelope ==
    (RequestSucceeded /\ name \in SearchTools /\ outcome.kind = "result") =>
        /\ outcome.doc.form = "enhanced"
        /\ {"presentation", "summary"} \subseteq DOMAIN outcome.doc
        /\ outcome.doc.response_type = name

\* search_devices and search_alarms do return the enhanced envelope
SearchDevicesAndAlarmsEnhanced ==
    (RequestSucceeded /\ name \in SearchTools \ {"search_flows"} /\ outcome.kind = "result") =>
        /\ outcome.doc.form = "enhanced"
        /\ {"presentation", "summary"} \subseteq DOMAIN outcome.doc

\* C30: for get_target_list, whose payload is a single target-list object,
\* the Markdown report and the summary state the same number of lists, 1,
\* and the same number of targets.
TargetListCountsAgree ==
    (RequestSucceeded /\ name = "get_target_list" /\ outcome.kind = "result") =>
        \E lists, targets \in {ToString(n) : n \in 0..TargetCount(Last(resps).data.obj)}
                              \cup {"1"} :
            /\ States(outcome.doc.summary, "Found ", lists)
            /\ States(outcome.doc.summary, " target lists with ", targets)
            /\ States(outcome.doc.presentation, "- **Total Lists**: ", lists)
            /\ States(outcome.doc.presentation, "- **Total Targets**: ", targets)

\* The summary of get_target_list does state one list and its targets
TargetListSummarised ==
    (RequestSucceeded /\ name = "get_target_list" /\ outcome.kind = "result") =>
        /\ States(outcome.doc.summary, "Found ", "1")
        /\ States(outcome.doc.summary, " target lists with ",
                  ToString(TargetCount(Last(resps).data.obj)))

\* What the sub-requests that ended as rs leave of a loop of search_global
RECURSIVE Searched(_, _)
Searched(loop, rs) ==
    IF rs = <<>> THEN loop
    ELSE Searched(IF Head(rs).ok THEN SearchSucceeded(loop, Head(rs).data)
                  ELSE SearchFailed(loop),
                  Tail(rs))

\* The outcome of the call of t with the arguments a on a server that has
\* served no call and serves no other, when its requests end as rs
Alone(t, a, rs) ==
    IF t \notin ToolNames THEN UnknownToolError(t)
    ELSE IF t = "search_global"
    THEN Completed(SearchGlobalResult(a, Searched(LoopBegun(a), rs)))
    ELSE IF Last(rs).ok THEN Completed(ToolResult(t, a, Last(rs).data))
    ELSE MapAxiosError(Last(rs).failure)

\* The requests that call issues alone, up to where it has come
RequestsAlone(t, a, rs) ==
    IF t \notin ToolNames THEN <<>>
    ELSE IF t = "search_global"
    THEN LET wanted == SelectSeq(SearchTypes(a), LAMBDA type : type \in Searchable)
             sent == IF Len(rs) < Len(wanted) THEN Len(rs) + 1 ELSE Len(wanted)
         IN [i \in 1..sent |-> SearchRequest(wanted[i], a)]
    ELSE Issued(t, a)

\* The call in slot c has come to where it would have come alone
AsAlone(c) ==
    LET call == calls[c]
    IN /\ call.reqs = RequestsAlone(call.name, call.args, call.resps)
       /\ call.pc = "returned" => call.outcome = Alone(call.name, call.args, call.resps)

OverlappedCallsIndependent ==
    /\ env = [x \in EnvNames |-> "value"]
    /\ \A c \in Slots : (InFlight(c) /\ calls[c].overlapped) => AsAlone(c)

OverlappedCallsIndependentWitness ==
    /\ \A c \in {1, 2} :
        /\ calls[c].overlapped
        /\ calls[c].pc = "returned"
        /\ calls[c].name = "search_global"
        /\ calls[c].outcome.kind = "result"
        /\ Len(calls[c].resps) = 2
    /\ calls[1].args = calls[2].args
    /\ calls[1].resps[1].ok /\ ~calls[2].resps[1].ok
    /\ ~calls[1].resps[2].ok /\ calls[2].resps[2].ok
    /\ calls[1].outcome # calls[2].outcome

====
